---- MODULE Spec2Model ----
(***************************************************************************)
(* Packaged-callable execution of prefect_intel: the dispatcher            *)
(* (run_in_environment of packaging/execution.py and run of the            *)
(* single-file packaging.py), the environment descriptors' predicates, and *)
(* the worker request/response protocol (packaging/worker.py and the same  *)
(* functions of packaging.py).                                             *)
(*                                                                         *)
(* Processes are a chain: procs[1] is the process that was started from    *)
(* the outside (a caller of the dispatcher, or a worker started by hand),  *)
(* procs[i+1] is the worker subprocess spawned by procs[i].  A process     *)
(* that spawned a worker blocks in subprocess.check_output until the       *)
(* worker has exited, so only the last process of the chain that has not   *)
(* finished takes steps.                                                   *)
(*                                                                         *)
(* The serializers (packaging/serializers.py, packaging/abc.py and the     *)
(* serializer classes of packaging.py) are followed on their own, from a   *)
(* function to its document and back to a call (SpecSerializers); the      *)
(* detection and creation of environments and the descriptors' methods     *)
(* (packaging/environments.py) are followed call by call                   *)
(* (SpecEnvironments).                                                     *)
(***************************************************************************)
EXTENDS Integers, Sequences, FiniteSets, TLC

VARIABLES
    impl,   \* "execution": packaging/execution.py + packaging/worker.py;
            \* "monolith":  packaging.py
    env,    \* the environment descriptor given to the dispatcher
    doc,    \* the callable document: what decoding and calling it does
    args,   \* the call arguments: can they be pickled?
    procs,  \* the chain of processes
    threads,   \* concurrent invocations in one process, each with its child
    function,  \* the function handed to a serializer
    calldoc,   \* the document made of it (or received from elsewhere)
    files,     \* the files FileSerializer wrote: path -> content
    called,    \* what decoding the document and calling the result gave
    machine,   \* the host as the environment functions find it
    last       \* the last call of an environment function and what it gave

\* The variables of the serializers and of the environment functions.
hostVars == <<machine, last>>

benchVars == <<function, calldoc, files, called, hostVars>>

vars == <<impl, env, doc, args, procs, threads, benchVars>>

\* Longest chain of processes the model follows (the caller and its nested workers).
MaxProcs == 3

\* binascii.MAXBINSIZE: base64.encodebytes encodes the input in pieces of 57
\* bytes and ends every piece's 76 characters with a newline.
MAXBINSIZE == 57

Range(q) == { q[k] : k \in DOMAIN q }

\* Number of occurrences of x in the sequence q.
Count(q, x) == Cardinality({ k \in DOMAIN q : q[k] = x })

(***************************************************************************)
(* Python objects.  cls is the type's name, msg the str() of the object    *)
(* (the message of an exception), picklable whether cloudpickle.dumps      *)
(* accepts it, truthy its bool(), size the length of its pickle in bytes.  *)
(***************************************************************************)
Obj(c, m, p, t, s) == [cls |-> c, msg |-> m, picklable |-> p, truthy |-> t, size |-> s]

None == Obj("NoneType", <<"None">>, TRUE, FALSE, 4)

\* Return values of the packaged callable.
Values ==
    { None,
      Obj("int", <<"3">>, TRUE, TRUE, 5),
      Obj("str", <<"long text">>, TRUE, TRUE, 100),
      Obj("lock", <<"locked">>, FALSE, TRUE, 0),
      Obj("EmptyHandleList", <<"[]">>, FALSE, FALSE, 0) }

\* Exceptions the packaged callable raises.
Exceptions ==
    { Obj("ValueError", <<"boom">>, TRUE, TRUE, 70),
      Obj("HandleError", <<"holds an open handle">>, FALSE, TRUE, 0),
      Obj("StatusError", <<"404", "not found">>, TRUE, TRUE, 75),
      Obj("SystemExit", <<"1">>, TRUE, TRUE, 65),
      Obj("KeyboardInterrupt", <<>>, TRUE, TRUE, 66) }

\* Exception classes that derive from BaseException and not from Exception.
NotExceptions == {"SystemExit", "KeyboardInterrupt"}

\* Classes whose pickle cannot be loaded again: an exception is rebuilt as
\* cls(*args), which fails for a constructor that requires more arguments than
\* it hands to Exception.__init__.
Unloadable == {"StatusError"}

\* Raised while turning the document into a callable (traceback-demo.py:
\* "requests.does_not_exist").
DecodeError == Obj("AttributeError", <<"does_not_exist">>, TRUE, TRUE, 80)

\* Raised by DataDocument.parse_raw / cloudpickle.loads on a request that is
\* None or not an encoded call.
RequestError == Obj("TypeError", <<"bad request">>, TRUE, TRUE, 60)

\* Raised by cloudpickle.dumps on an object that cannot be pickled.
PicklingFailure(o) == Obj("TypeError", <<"cannot pickle", o.cls>>, TRUE, TRUE, 90)

RuntimeError(m) == Obj("RuntimeError", <<m>>, TRUE, TRUE, 110)

ValueError(m) == Obj("ValueError", <<m>>, TRUE, TRUE, 70)

\* repr(obj) as the words of the text.
Repr(o) == <<o.cls>> \o o.msg

(***************************************************************************)
(* Callable documents.                                                      *)
(***************************************************************************)
Docs ==
    { [decodes |-> FALSE, raises |-> TRUE, obj |-> DecodeError] }
    \cup { [decodes |-> TRUE, raises |-> FALSE, obj |-> v] : v \in Values }
    \cup { [decodes |-> TRUE, raises |-> TRUE, obj |-> e] : e \in Exceptions }

(***************************************************************************)
(* Environment descriptors and what a process observes of its machine.     *)
(***************************************************************************)
Envs ==
    { [kind |-> "bare", hasName |-> FALSE, hasPath |-> FALSE],
      [kind |-> "venv", hasName |-> FALSE, hasPath |-> TRUE] }
    \cup { [kind |-> "conda", hasName |-> n, hasPath |-> p] : n, p \in BOOLEAN }

AllFacts ==
    [ versionMatch : BOOLEAN,      \* python_version_minor() == self.python_version
      whichPython : BOOLEAN,       \* shutil.which("python<version>") is not None
      exeIsVenv : BOOLEAN,         \* sys.executable == <venv>/bin/python
      exeExists : BOOLEAN,         \* os.path.exists(<venv>/bin/python)
      exeEndsWithName : BOOLEAN,   \* sys.executable ends with <name>/bin/python
      exeEqPath : BOOLEAN,         \* sys.executable == <path>/bin/python
      condaOnPath : BOOLEAN,       \* the conda executable can be found and run
      condaListOk : BOOLEAN,       \* "conda env list --json" exits with 0
      nameListed : BOOLEAN,        \* the name is among the listed environments
      pathListed : BOOLEAN ]       \* the path is among the listed environments

NoFacts ==
    [ versionMatch |-> FALSE, whichPython |-> FALSE, exeIsVenv |-> FALSE,
      exeExists |-> FALSE, exeEndsWithName |-> FALSE, exeEqPath |-> FALSE,
      condaOnPath |-> FALSE, condaListOk |-> FALSE, nameListed |-> FALSE,
      pathListed |-> FALSE ]

\* The observations the descriptor e can make; the others are left FALSE.
\* The environment list is only read when conda ran and exited with 0.
FactsFor(e) ==
    CASE e.kind = "bare" ->
            { [NoFacts EXCEPT !.versionMatch = a, !.whichPython = b] : a, b \in BOOLEAN }
      [] e.kind = "venv" ->
            { [NoFacts EXCEPT !.exeIsVenv = a, !.exeExists = b] : a, b \in BOOLEAN }
      [] e.kind = "conda" ->
            { [NoFacts EXCEPT !.exeEndsWithName = e.hasName /\ q[1],
                              !.exeEqPath = ~e.hasName /\ e.hasPath /\ q[1],
                              !.condaOnPath = q[2],
                              !.condaListOk = q[2] /\ q[3],
                              !.nameListed = e.hasName /\ q[2] /\ q[3] /\ q[4],
                              !.pathListed = ~e.hasName /\ e.hasPath /\ q[2] /\ q[3] /\ q[4]]
                : q \in BOOLEAN \X BOOLEAN \X BOOLEAN \X BOOLEAN }

\* What a predicate call does: return a boolean or raise.
Ret(b) == [ok |-> TRUE, val |-> b, err |-> None]

Raise(x) == [ok |-> FALSE, val |-> FALSE, err |-> x]

NeitherSet == ValueError("Either name or path must be set.")

is_active(e, f) ==
    CASE e.kind = "bare" -> Ret(f.versionMatch)
      [] e.kind = "venv" -> Ret(f.exeIsVenv)
      [] e.kind = "conda" ->
            IF e.hasName THEN Ret(f.exeEndsWithName)
            ELSE IF e.hasPath THEN Ret(f.exeEqPath)
            ELSE Raise(NeitherSet)

is_available(e, f) ==
    CASE e.kind = "bare" -> IF is_active(e, f).val THEN Ret(TRUE) ELSE Ret(f.whichPython)
      [] e.kind = "venv" -> Ret(f.exeExists)
      [] e.kind = "conda" ->
            IF ~f.condaOnPath
            THEN Raise(Obj("FileNotFoundError", <<"conda">>, TRUE, TRUE, 60))
            ELSE IF ~f.condaListOk
            THEN Raise(RuntimeError("Failed to check for conda environments on machine."))
            ELSE IF e.hasName THEN Ret(f.nameListed)
            ELSE IF e.hasPath THEN Ret(f.pathListed)
            ELSE Raise(NeitherSet)

manager_available(e, f) ==
    CASE e.kind = "bare" -> Ret(FALSE)
      [] e.kind = "venv" -> Ret(TRUE)
      [] e.kind = "conda" -> Ret(f.condaOnPath)

(***************************************************************************)
(* The dispatcher's decision: the predicates it called, in order, what     *)
(* each returned, and the branch it took.                                  *)
(***************************************************************************)
Decision(ev, o, x) == [evald |-> ev, outcome |-> o, err |-> x]

Call(n, r) == [pred |-> n, ok |-> r.ok, val |-> r.val]

NeedsCreateError == RuntimeError("Functions cannot yet be run in new environments.")

UnsupportedError ==
    RuntimeError("The required environment does not exist and the tooling to create it is not available.")

WorkerGuardError ==
    RuntimeError("Worker process did not detect the required environment. Refusing to run document.")

\* AfterActive with the two error branches exchanged.
AfterActive_errors_exchanged(e, f, ev) ==
    LET v == is_available(e, f)
        ev2 == Append(ev, Call("is_available", v))
    IN  IF ~v.ok THEN Decision(ev2, "PREDICATE_ERROR", v.err)
        ELSE IF v.val THEN Decision(ev2, "REMOTE", None)
        ELSE LET m == manager_available(e, f)
                 ev3 == Append(ev2, Call("manager_available", m))
             IN  IF m.val THEN Decision(ev3, "UNSUPPORTED", UnsupportedError)
                 ELSE Decision(ev3, "NEEDS_CREATE", NeedsCreateError)

\* The branches after is_active() returned False (and, in run, the worker guard
\* did not apply): is_available, then manager_available.
AfterActive(e, f, ev) ==
    LET v == is_available(e, f)
        ev2 == Append(ev, Call("is_available", v))
    IN  IF ~v.ok THEN Decision(ev2, "PREDICATE_ERROR", v.err)
        ELSE IF v.val THEN Decision(ev2, "REMOTE", None)
        ELSE LET m == manager_available(e, f)
                 ev3 == Append(ev2, Call("manager_available", m))
             IN  IF m.val THEN Decision(ev3, "NEEDS_CREATE", NeedsCreateError)
                 ELSE Decision(ev3, "UNSUPPORTED", UnsupportedError)

\* run_in_environment with the availability check placed before the activity
\* check.
run_in_environment_available_first(isWorker, e, f) ==
    LET v == is_available(e, f)
        ev == <<Call("is_available", v)>>
    IN  IF ~v.ok THEN Decision(ev, "PREDICATE_ERROR", v.err)
        ELSE IF v.val THEN Decision(ev, "REMOTE", None)
        ELSE LET a == is_active(e, f)
                 ev2 == Append(ev, Call("is_active", a))
             IN  IF ~a.ok THEN Decision(ev2, "PREDICATE_ERROR", a.err)
                 ELSE IF a.val THEN Decision(ev2, "LOCAL", None)
                 ELSE LET m == manager_available(e, f)
                          ev3 == Append(ev2, Call("manager_available", m))
                      IN  IF m.val THEN Decision(ev3, "NEEDS_CREATE", NeedsCreateError)
                          ELSE Decision(ev3, "UNSUPPORTED", UnsupportedError)

\* packaging/execution.py: no worker guard.
run_in_environment(isWorker, e, f) ==
    LET a == is_active(e, f)
        ev == <<Call("is_active", a)>>
    IN  IF ~a.ok THEN Decision(ev, "PREDICATE_ERROR", a.err)
        ELSE IF a.val THEN Decision(ev, "LOCAL", None)
        ELSE AfterActive(e, f, ev)

\* run with the IS_WORKER_PROCESS branch placed before the spawn only.
run_guard_before_spawn(isWorker, e, f) ==
    LET a == is_active(e, f)
        ev == <<Call("is_active", a)>>
        d == AfterActive(e, f, ev)
    IN  IF ~a.ok THEN Decision(ev, "PREDICATE_ERROR", a.err)
        ELSE IF a.val THEN Decision(ev, "LOCAL", None)
        ELSE IF isWorker /\ d.outcome = "REMOTE"
        THEN Decision(d.evald, "WORKER_GUARD", WorkerGuardError)
        ELSE d

\* run without the IS_WORKER_PROCESS branch.
run_without_guard(isWorker, e, f) ==
    LET a == is_active(e, f)
        ev == <<Call("is_active", a)>>
    IN  IF ~a.ok THEN Decision(ev, "PREDICATE_ERROR", a.err)
        ELSE IF a.val THEN Decision(ev, "LOCAL", None)
        ELSE AfterActive(e, f, ev)

\* packaging.py: IS_WORKER_PROCESS is checked right after is_active.
run(isWorker, e, f) ==
    LET a == is_active(e, f)
        ev == <<Call("is_active", a)>>
    IN  IF ~a.ok THEN Decision(ev, "PREDICATE_ERROR", a.err)
        ELSE IF a.val THEN Decision(ev, "LOCAL", None)
        ELSE IF isWorker THEN Decision(ev, "WORKER_GUARD", WorkerGuardError)
        ELSE AfterActive(e, f, ev)

Dispatch(i, isWorker, e, f) ==
    IF i = "monolith" THEN run(isWorker, e, f) ELSE run_in_environment(isWorker, e, f)

(***************************************************************************)
(* Pickles, base64 and the bytes on the worker's standard output.          *)
(*                                                                         *)
(* A Python value that crosses the process boundary is a plain object or   *)
(* the pair (exception, traceback snapshot).  A traceback snapshot holds   *)
(* its formatted lines and the process that captured it.                   *)
(***************************************************************************)
NoTb == [lines |-> <<>>, pid |-> 0]

Plain(o) == [pair |-> FALSE, obj |-> o, tb |-> NoTb]

Pair(e, tb) == [pair |-> TRUE, obj |-> e, tb |-> tb]

TbLine(k, e) == [k |-> k, cls |-> e.cls, msg |-> e.msg]

\* traceback.TracebackException.from_exception(exc) in process pid: the header
\* and the frames when exc was raised (it has a __traceback__), then the
\* "Type: message" line.
from_exception(exc, raised, pid) ==
    [ lines |-> (IF raised
                 THEN <<TbLine("header", None), TbLine("frame", None)>>
                 ELSE <<>>) \o <<TbLine("exc", exc)>>,
      pid |-> pid ]

\* cloudpickle.dumps(v): the pickle of v (the model keeps v itself as the
\* pickle's content), or the failure to pickle it.
dumps(v) ==
    IF v.obj.picklable
    THEN [ok |-> TRUE, blob |-> v, err |-> None]
    ELSE [ok |-> FALSE, blob |-> Plain(None), err |-> PicklingFailure(v.obj)]

\* pickle_exception pickling the exception alone, without its traceback.
pickle_exception_without_traceback(exc, raised, pid) == dumps(Plain(exc))

pickle_exception(exc, raised, pid) == dumps(Pair(exc, from_exception(exc, raised, pid)))

\* Length of the pickle in bytes.
PickleSize(v) == v.obj.size + (IF v.pair THEN 60 * Len(v.tb.lines) ELSE 0)

PickleError(exception, obj) ==
    Obj("PickleError",
        IF obj.truthy /\ exception.truthy
        THEN <<"Pickle of type", obj.cls, "failed with exception:">> \o exception.msg
                 \o <<"Object:">> \o Repr(obj)
        ELSE <<"Pickle failed. No information was included.">>,
        TRUE, TRUE, 120)

\* Bytes are kept as tokens: a word without white space, a newline, or one
\* line of base64 text (piece i of the pickle blob).
Word(s) == [t |-> "word", s |-> s, blob |-> Plain(None), i |-> 0]

NL == [t |-> "nl", s |-> "", blob |-> Plain(None), i |-> 0]

B64(b, i) == [t |-> "b64", s |-> "", blob |-> b, i |-> i]

\* Number of 57-byte pieces of n bytes.
Pieces(n) == (n + MAXBINSIZE - 1) \div MAXBINSIZE

\* base64.b64encode(blob): the same text without any newline.
encodebytes_unwrapped(b) == [ k \in 1..Pieces(PickleSize(b)) |-> B64(b, k) ]

\* base64.encodebytes(blob): every piece on its own line, each ended by a newline.
encodebytes(b) ==
    [ k \in 1..(2 * Pieces(PickleSize(b))) |->
        IF k % 2 = 1 THEN B64(b, (k + 1) \div 2) ELSE NL ]

\* base64.decodebytes(text): decodebytes skips the newlines; what is left must
\* be all the pieces of one pickle, in order.
decodebytes(text) ==
    LET chunks == SelectSeq(text, LAMBDA tok : tok.t # "nl")
    IN  IF /\ chunks # <<>>
           /\ \A k \in 1..Len(chunks) :
                 /\ chunks[k].t = "b64"
                 /\ chunks[k].i = k
                 /\ chunks[k].blob = chunks[1].blob
           /\ Len(chunks) = Pieces(PickleSize(chunks[1].blob))
        THEN [ok |-> TRUE, val |-> chunks[1].blob]
        ELSE [ok |-> FALSE, val |-> Plain(None)]

\* cloudpickle.loads(base64.decodebytes(text)): fails on text that is not the
\* base64 of a pickle and on a pickle whose object cannot be rebuilt.
loads_decodebytes(text) ==
    LET raw == decodebytes(text)
    IN  IF raw.ok /\ raw.val.obj.cls \notin Unloadable
        THEN raw
        ELSE [ok |-> FALSE, val |-> Plain(None)]

\* EncodeResult without the second attempt: a failed pickle is what is left.
EncodeResult_without_fallback(exception, retval, pid) ==
    LET first == IF exception # None
                 THEN pickle_exception(exception, TRUE, pid)
                 ELSE dumps(retval)
    IN  [ status |-> IF exception # None THEN "EXCEPTION" ELSE "RETURN",
          result |-> first ]

(***************************************************************************)
(* The worker's answer (handle_worker_request, from "try: if exception is  *)
(* not None" to the writes).                                               *)
(***************************************************************************)
EncodeResult(exception, retval, pid) ==
    LET first == IF exception # None
                 THEN pickle_exception(exception, TRUE, pid)
                 ELSE dumps(retval)
    IN  IF first.ok
        THEN [ status |-> IF exception # None THEN "EXCEPTION" ELSE "RETURN",
               result |-> first ]
        ELSE [ status |-> "EXCEPTION",
               result |-> pickle_exception(
                              PickleError(first.err,
                                          IF exception.truthy THEN exception
                                          ELSE retval.obj),
                              FALSE, pid) ]

\* stdout.buffer.write(status); write(b"\n"); write(base64.encodebytes(result))
WorkerOutput(status, blob) == <<Word(status), NL>> \o encodebytes(blob)

(***************************************************************************)
(* The parent's reading of a response (handle_worker_response).            *)
(***************************************************************************)
RECURSIVE LStrip(_)
LStrip(s) == IF s # <<>> /\ Head(s).t = "nl" THEN LStrip(Tail(s)) ELSE s

RECURSIVE RStrip(_)
RStrip(s) ==
    IF s # <<>> /\ s[Len(s)].t = "nl" THEN RStrip(SubSeq(s, 1, Len(s) - 1)) ELSE s

\* bytes.strip()
Strip(s) == RStrip(LStrip(s))

\* Index of the first newline of s, 0 when there is none.
FirstNL(s) ==
    IF \E k \in 1..Len(s) : s[k].t = "nl"
    THEN CHOOSE k \in 1..Len(s) : s[k].t = "nl" /\ \A j \in 1..(k - 1) : s[j].t # "nl"
    ELSE 0

Returns(v) == [act |-> "return", val |-> v, err |-> None]

Raises(x) == [act |-> "raise", val |-> Plain(None), err |-> x]

\* Print the traceback lines of v, then raise its exception.
PrintAndRaise(v) == [act |-> "print_raise", val |-> v, err |-> v.obj]

MalformedResponse == RuntimeError("Malformed worker response")

MalformedPayload == RuntimeError("Malformed result payload.")

UnknownStatus == RuntimeError("Unknown worker status")

UnpackError == Obj("TypeError", <<"cannot unpack non-iterable object">>, TRUE, TRUE, 60)

\* handle_worker_response without the try/except around the split: a response
\* without a separator fails in the unpacking.
handle_worker_response_unguarded_split(response) ==
    LET s == Strip(response)
        k == FirstNL(s)
    IN  IF k = 0
        THEN Raises(Obj("ValueError", <<"not enough values to unpack">>, TRUE, TRUE, 60))
        ELSE LET status == SubSeq(s, 1, k - 1)
                 encoded_result == SubSeq(s, k + 1, Len(s))
                 result == loads_decodebytes(encoded_result)
             IN  IF ~result.ok THEN Raises(MalformedPayload)
                 ELSE IF status = <<Word("EXCEPTION")>>
                 THEN IF result.val.pair THEN PrintAndRaise(result.val)
                      ELSE Raises(UnpackError)
                 ELSE IF status = <<Word("RETURN")>> THEN Returns(result.val)
                 ELSE Raises(UnknownStatus)

\* handle_worker_response splitting at every newline (split(b"\n") without
\* maxsplit=1): a payload of more than one line no longer unpacks into two.
handle_worker_response_split_all(response) ==
    LET s == Strip(response)
        k == FirstNL(s)
    IN  IF k = 0 \/ Count(s, NL) # 1 THEN Raises(MalformedResponse)
        ELSE LET status == SubSeq(s, 1, k - 1)
                 encoded_result == SubSeq(s, k + 1, Len(s))
                 result == loads_decodebytes(encoded_result)
             IN  IF ~result.ok THEN Raises(MalformedPayload)
                 ELSE IF status = <<Word("EXCEPTION")>>
                 THEN IF result.val.pair THEN PrintAndRaise(result.val)
                      ELSE Raises(UnpackError)
                 ELSE IF status = <<Word("RETURN")>> THEN Returns(result.val)
                 ELSE Raises(UnknownStatus)

handle_worker_response(response) ==
    LET s == Strip(response)
        k == FirstNL(s)
    IN  IF k = 0 THEN Raises(MalformedResponse)
        ELSE LET status == SubSeq(s, 1, k - 1)
                 encoded_result == SubSeq(s, k + 1, Len(s))
                 result == loads_decodebytes(encoded_result)
             IN  IF ~result.ok THEN Raises(MalformedPayload)
                 ELSE IF status = <<Word("EXCEPTION")>>
                 THEN IF result.val.pair THEN PrintAndRaise(result.val)
                      ELSE Raises(UnpackError)
                 ELSE IF status = <<Word("RETURN")>> THEN Returns(result.val)
                 ELSE Raises(UnknownStatus)

(***************************************************************************)
(* Processes.                                                              *)
(*   pc: "dispatch"  about to run the dispatcher                           *)
(*       "waiting"   blocked in subprocess.check_output                    *)
(*       "print"     printing the traceback lines of an EXCEPTION response *)
(*       "done"      the dispatcher returned retval or raised exception    *)
(*       "request"   worker: about to decode its request                   *)
(*       "call"      worker of worker.py: about to call the function       *)
(*       "respond"   worker: about to encode and write its response        *)
(*       "exited"    worker: finished                                      *)
(***************************************************************************)
NewProc(role, pc, request) ==
    [ role |-> role, pc |-> pc, request |-> request,
      facts |-> NoFacts, evald |-> <<>>, outcome |-> "",
      retval |-> Plain(None), exception |-> None,
      effects |-> <<>>,      \* what the process did: "decode_request",
                             \* "decode_document", "invoke", "spawn"
      devnull |-> FALSE,     \* sys.stdout is the null sink
      said |-> <<>>,         \* everything user code wrote to sys.stdout
      sink |-> <<>>,         \* what the null sink swallowed
      out |-> <<>>,          \* bytes written to the original standard output
      flushed |-> FALSE,
      printed |-> <<>>,      \* lines print()ed to sys.stdout
      tbq |-> <<>> ]         \* traceback lines still to print

Impls == {"execution", "monolith"}

\* The call arguments (*args, **kwargs).
ArgObjs ==
    { Obj("tuple", <<"(1, 2)">>, TRUE, TRUE, 20),
      Obj("tuple", <<"(lock,)">>, FALSE, TRUE, 0) }

\* What a worker finds in sys.argv[1]: nothing, bytes that are no encoded
\* call, or the encoded call (document, args, kwargs).
Requests == {"missing", "garbage", "call"}

\* No function, no document, nothing decoded: the serializers are not in use.
NoFunction == [name |-> "", toplevel |-> TRUE, closed |-> TRUE, value |-> 0]

NoDocument == [stage |-> "none"]

NotCalled == [stage |-> "none"]

\* No environment function has been called; the host is of no interest.
\* A value of an environment variable is the sequence of its parts (of a
\* search path, the entries; of other text, the characters); this is the
\* value of a variable that is not set (os.environ.get returns None).
Unset == <<"<unset>">>

NoMachine == [conda |-> "absent"]

NoCall == [op |-> ""]

IdleHost == machine = NoMachine /\ last = NoCall

\* No invocation runs in a thread.
NoThreads == <<>>

IdleBench ==
    /\ threads = NoThreads
    /\ function = NoFunction
    /\ calldoc = NoDocument
    /\ files = {}
    /\ called = NotCalled
    /\ IdleHost

Init ==
    /\ impl \in Impls
    /\ env \in Envs
    /\ doc \in Docs
    /\ args \in ArgObjs
    /\ IdleBench
    /\ procs \in { <<NewProc("caller", "dispatch", "none")>> }
                 \cup { <<NewProc("worker", "request", r)>> : r \in Requests }

IsWorker(p) == p.role = "worker"

\* Where a process goes when its dispatcher call is over.
\* "except Exception as exc": interpreter exit and interrupt pass through.
except_Exception(exc) == exc.cls \notin NotExceptions

\* "except BaseException as exc" around the decoding and around the call in
\* handle_worker_request: whatever is raised is kept.
except_BaseException(exc) == TRUE

\* A worker goes on to its response with what was returned or caught (what it
\* does not catch ends it); a caller is done.
Finish(p) ==
    [p EXCEPT !.pc = IF ~IsWorker(p) THEN "done"
                     ELSE IF p.exception = None \/ except_BaseException(p.exception)
                     THEN "respond"
                     ELSE "exited"]

Did(p, what) == [p EXCEPT !.effects = @ \o what]

\* What the user code (the packaged callable, the source it is defined by)
\* print()s while it runs: nothing, a line, or text that looks like a response.
UserPrints ==
    { <<>>,
      <<Word("hello"), NL>>,
      <<Word("RETURN"), NL, Word("gASVBQ=="), NL>> }

\* A write to sys.stdout with sys.stdout never replaced.
sys_stdout_write_unredirected(p, text) ==
    IF IsWorker(p)
    THEN [p EXCEPT !.said = @ \o text, !.out = @ \o text]
    ELSE [p EXCEPT !.said = @ \o text, !.printed = @ \o text]

\* A write to sys.stdout: to the null sink once handle_worker_request has
\* replaced sys.stdout, else to the standard output of the process (a worker's
\* is the pipe its parent reads).
sys_stdout_write(p, text) ==
    IF p.devnull
    THEN [p EXCEPT !.said = @ \o text, !.sink = @ \o text]
    ELSE IF IsWorker(p)
    THEN [p EXCEPT !.said = @ \o text, !.out = @ \o text]
    ELSE [p EXCEPT !.said = @ \o text, !.printed = @ \o text]

\* DecodeAndCall with every failure wrapped in a RuntimeError.
DecodeAndCall_wrapping(p) ==
    IF ~doc.decodes \/ doc.raises
    THEN [Did(p, <<"decode_document">>) EXCEPT !.exception = RuntimeError("call failed")]
    ELSE [Did(p, <<"decode_document", "invoke">>) EXCEPT !.retval = Plain(doc.obj)]

\* fn = to_callable() / unpackage(); fn(*args, **kwargs)
DecodeAndCall(p) ==
    IF ~doc.decodes
    THEN [Did(p, <<"decode_document">>) EXCEPT !.exception = doc.obj]
    ELSE IF doc.raises
    THEN [Did(p, <<"decode_document", "invoke">>) EXCEPT !.exception = doc.obj]
    ELSE [Did(p, <<"decode_document", "invoke">>) EXCEPT !.retval = Plain(doc.obj)]

Decided(p, f, d) == [p EXCEPT !.facts = f, !.evald = d.evald, !.outcome = d.outcome]

\* The process i runs the dispatcher and its decision has outcome o.
Decides(i, f, o) ==
    /\ i = Len(procs)
    /\ procs[i].pc = "dispatch"
    /\ f \in FactsFor(env)
    /\ Dispatch(impl, IsWorker(procs[i]), env, f).outcome = o

DecisionOf(i, f) == Dispatch(impl, IsWorker(procs[i]), env, f)

\* is_active(): decode the document and call the function here.
RunLocal(i) ==
    /\ \E f \in FactsFor(env) :
          /\ Decides(i, f, "LOCAL")
          /\ \E text \in UserPrints :
                procs' = [procs EXCEPT ![i] =
                   Finish(DecodeAndCall(
                      sys_stdout_write(Decided(procs[i], f, DecisionOf(i, f)), text)))]
    /\ UNCHANGED <<impl, env, doc, args, threads, benchVars>>

\* is_available(): run_in_new_worker encodes the call and starts the worker.
SpawnWorker(i) ==
    /\ Len(procs) < MaxProcs
    /\ args.picklable
    /\ \E f \in FactsFor(env) :
          /\ Decides(i, f, "REMOTE")
          /\ procs' = Append(
                 [procs EXCEPT ![i] =
                     [Did(Decided(procs[i], f, DecisionOf(i, f)), <<"spawn">>)
                         EXCEPT !.pc = "waiting"]],
                 NewProc("worker", "request", "call"))
    /\ UNCHANGED <<impl, env, doc, args, threads, benchVars>>

\* is_available(), but cloudpickle.dumps(call) fails: nothing is started.
EncodeCallFails(i) ==
    /\ ~args.picklable
    /\ \E f \in FactsFor(env) :
          /\ Decides(i, f, "REMOTE")
          /\ procs' = [procs EXCEPT ![i] =
                          Finish([Decided(procs[i], f, DecisionOf(i, f))
                                     EXCEPT !.exception = PicklingFailure(args)])]
    /\ UNCHANGED <<impl, env, doc, args, threads, benchVars>>

\* The branches that raise: the process ends its dispatcher call with the
\* decision's error.
Raised(i, f) ==
    Finish([Decided(procs[i], f, DecisionOf(i, f))
               EXCEPT !.exception = DecisionOf(i, f).err])

\* manager_available(): "Functions cannot yet be run in new environments."
RaiseNeedsCreate(i) ==
    /\ \E f \in FactsFor(env) :
          /\ Decides(i, f, "NEEDS_CREATE")
          /\ procs' = [procs EXCEPT ![i] = Raised(i, f)]
    /\ UNCHANGED <<impl, env, doc, args, threads, benchVars>>

\* else: "The required environment does not exist and the tooling ..."
RaiseUnsupported(i) ==
    /\ \E f \in FactsFor(env) :
          /\ Decides(i, f, "UNSUPPORTED")
          /\ procs' = [procs EXCEPT ![i] = Raised(i, f)]
    /\ UNCHANGED <<impl, env, doc, args, threads, benchVars>>

\* packaging.py, IS_WORKER_PROCESS: "Worker process did not detect ..."
RaiseWorkerGuard(i) ==
    /\ \E f \in FactsFor(env) :
          /\ Decides(i, f, "WORKER_GUARD")
          /\ procs' = [procs EXCEPT ![i] = Raised(i, f)]
    /\ UNCHANGED <<impl, env, doc, args, threads, benchVars>>

\* A predicate raised instead of answering.
PredicateRaises(i) ==
    /\ \E f \in FactsFor(env) :
          /\ Decides(i, f, "PREDICATE_ERROR")
          /\ procs' = [procs EXCEPT ![i] = Raised(i, f)]
    /\ UNCHANGED <<impl, env, doc, args, threads, benchVars>>

(***************************************************************************)
(* The worker (handle_worker_request).                                     *)
(***************************************************************************)
\* sys.stdout = open(os.devnull, "w"), then the first try block: decode the
\* request and (worker.py) the document.  In packaging.py the document is
\* parsed here and decoded by run().
WorkerDecodeRequest(i) ==
    /\ i \in DOMAIN procs
    /\ procs[i].pc = "request"
    /\ LET p == [Did(procs[i], <<"decode_request">>) EXCEPT !.devnull = TRUE]
       IN  procs' = [procs EXCEPT ![i] =
              IF p.request # "call"
              THEN [p EXCEPT !.exception = RequestError, !.pc = "respond"]
              ELSE IF impl = "monolith"
              THEN [p EXCEPT !.pc = "dispatch"]
              ELSE IF ~doc.decodes
              THEN [Did(p, <<"decode_document">>)
                       EXCEPT !.exception = doc.obj, !.pc = "respond"]
              ELSE [Did(p, <<"decode_document">>) EXCEPT !.pc = "call"]]
    /\ UNCHANGED <<impl, env, doc, args, threads, benchVars>>

\* worker.py: retval = func(*args, **kwargs)
WorkerCall(i) ==
    /\ i \in DOMAIN procs
    /\ procs[i].pc = "call"
    /\ \E text \in UserPrints :
          LET p == sys_stdout_write(Did(procs[i], <<"invoke">>), text)
          IN  procs' = [procs EXCEPT ![i] =
                 IF doc.raises
                 THEN Finish([p EXCEPT !.exception = doc.obj])
                 ELSE Finish([p EXCEPT !.retval = Plain(doc.obj)])]
    /\ UNCHANGED <<impl, env, doc, args, threads, benchVars>>

\* Encode the result, write status, newline and payload, flush; the process
\* then ends.
WorkerRespond(i) ==
    /\ i \in DOMAIN procs
    /\ procs[i].pc = "respond"
    /\ LET r == EncodeResult(procs[i].exception, procs[i].retval, i)
       IN  procs' = [procs EXCEPT ![i] =
              IF r.result.ok
              THEN [procs[i] EXCEPT !.out = @ \o WorkerOutput(r.status, r.result.blob),
                                    !.flushed = TRUE,
                                    !.pc = "exited"]
              ELSE [procs[i] EXCEPT !.pc = "exited"]]
    /\ UNCHANGED <<impl, env, doc, args, threads, benchVars>>

(***************************************************************************)
(* The parent: check_output returns the worker's output when the worker    *)
(* has exited; handle_worker_response reads it.                            *)
(***************************************************************************)
\* handle_worker_response raising before it has printed anything.
LinesBeforeRaise_none(v) == <<>>

\* The lines handle_worker_response prints before it raises the exception of
\* an EXCEPTION response (for line in tb.format(): print(line, end="")).
LinesBeforeRaise(v) == v.tb.lines

\* check_output with a timeout: it returns whether or not the child has ended.
check_output_returns_on_timeout(i) == TRUE

\* subprocess.check_output(command, **kwargs) in the process i returns when
\* its child has ended; no timeout is passed.
check_output_returns(i) == procs[i + 1].pc = "exited"

HandleWorkerResponse(i) ==
    /\ i \in DOMAIN procs
    /\ i < Len(procs)
    /\ procs[i].pc = "waiting"
    /\ check_output_returns(i)
    /\ \E r \in {handle_worker_response(procs[i + 1].out)} :
           procs' = [procs EXCEPT ![i] =
              CASE r.act = "return" -> Finish([procs[i] EXCEPT !.retval = r.val])
                [] r.act = "raise" -> Finish([procs[i] EXCEPT !.exception = r.err])
                [] r.act = "print_raise" ->
                      [procs[i] EXCEPT !.retval = r.val,
                                       !.tbq = LinesBeforeRaise(r.val),
                                       !.pc = "print"]]
    /\ UNCHANGED <<impl, env, doc, args, threads, benchVars>>

\* print(line, end="")
PrintLine(i) ==
    /\ i \in DOMAIN procs
    /\ procs[i].pc = "print"
    /\ procs[i].tbq # <<>>
    /\ procs' = [procs EXCEPT ![i].printed = Append(@, Head(procs[i].tbq)),
                              ![i].tbq = Tail(@)]
    /\ UNCHANGED <<impl, env, doc, args, threads, benchVars>>

\* raise exc
ReRaise(i) ==
    /\ i \in DOMAIN procs
    /\ procs[i].pc = "print"
    /\ procs[i].tbq = <<>>
    /\ procs' = [procs EXCEPT ![i] =
                    Finish([procs[i] EXCEPT !.exception = procs[i].retval.obj,
                                            !.retval = Plain(None)])]
    /\ UNCHANGED <<impl, env, doc, args, threads, benchVars>>

Procs == 1..MaxProcs

Next ==
    \/ \E i \in Procs : RunLocal(i)
    \/ \E i \in Procs : SpawnWorker(i)
    \/ \E i \in Procs : EncodeCallFails(i)
    \/ \E i \in Procs : RaiseNeedsCreate(i)
    \/ \E i \in Procs : RaiseUnsupported(i)
    \/ \E i \in Procs : RaiseWorkerGuard(i)
    \/ \E i \in Procs : PredicateRaises(i)
    \/ \E i \in Procs : WorkerDecodeRequest(i)
    \/ \E i \in Procs : WorkerCall(i)
    \/ \E i \in Procs : WorkerRespond(i)
    \/ \E i \in Procs : HandleWorkerResponse(i)
    \/ \E i \in Procs : PrintLine(i)
    \/ \E i \in Procs : ReRaise(i)

Spec == Init /\ [][Next]_vars

\* A caller about to dispatch to a virtual environment, which is what is
\* spawned into when it is available and not active.
InitLive ==
    /\ impl \in Impls
    /\ env = [kind |-> "venv", hasName |-> FALSE, hasPath |-> TRUE]
    /\ doc \in Docs
    /\ args = Obj("tuple", <<"(1, 2)">>, TRUE, TRUE, 20)
    /\ IdleBench
    /\ procs = <<NewProc("caller", "dispatch", "none")>>

\* The steps of a dispatch through a worker, and of the worker.
NextLive ==
    \/ \E i \in Procs : SpawnWorker(i)
    \/ \E i \in Procs : RunLocal(i)
    \/ \E i \in Procs : RaiseWorkerGuard(i)
    \/ \E i \in Procs : WorkerDecodeRequest(i)
    \/ \E i \in Procs : WorkerCall(i)
    \/ \E i \in Procs : WorkerRespond(i)
    \/ \E i \in Procs : HandleWorkerResponse(i)
    \/ \E i \in Procs : PrintLine(i)
    \/ \E i \in Procs : ReRaise(i)

\* The caller's own steps are taken when they can be: it is a running thread
\* of a live process.  Nothing makes a worker take its steps: the callable
\* it runs may never return.
SpecLive ==
    /\ InitLive
    /\ [][NextLive]_vars
    /\ WF_vars(\E i \in Procs : HandleWorkerResponse(i))
    /\ WF_vars(\E i \in Procs : PrintLine(i))
    /\ WF_vars(\E i \in Procs : ReRaise(i))

(***************************************************************************)
(* handle_worker_response on any output of a child process: the parent is  *)
(* blocked on a child whose standard output is one of ResponseInputs.      *)
(***************************************************************************)
\* Pickles that can be on the wire.
WireValues ==
    { Plain(v) : v \in { v \in Values : v.picklable } }
    \cup { Pair(e, from_exception(e, TRUE, 2)) : e \in { e \in Exceptions : e.picklable } }

\* Payload texts: empty, base64 of a pickle (with its line ends, or as one
\* unbroken run of lines), a pickle cut short, and text that is no base64 of
\* a pickle.
Payloads ==
    { <<>>, <<Word("garbage")>> }
    \cup { encodebytes(b) : b \in WireValues }
    \cup { SelectSeq(encodebytes(b), LAMBDA tok : tok.t # "nl") : b \in WireValues }
    \cup { SubSeq(encodebytes(b), 1, 1) : b \in { w \in WireValues : PickleSize(w) > MAXBINSIZE } }

StatusTexts ==
    { <<>>, <<Word("RETURN")>>, <<Word("EXCEPTION")>>, <<Word("return")>>,
      <<Word("DONE")>>, <<Word("RETURN"), Word("EXCEPTION")>> }

ResponseInputs ==
    { lead \o st \o sep \o pay :
        lead \in { <<>>, <<NL>> },
        st \in StatusTexts,
        sep \in { <<>>, <<NL>> },
        pay \in Payloads }

InitResponse ==
    /\ impl \in Impls
    /\ env \in { e \in Envs : e.kind = "venv" }
    /\ doc \in { d \in Docs : d.obj = None }
    /\ args \in { a \in ArgObjs : a.picklable }
    /\ IdleBench
    /\ \E r \in ResponseInputs :
          procs = << [NewProc("caller", "waiting", "none")
                         EXCEPT !.outcome = "REMOTE", !.effects = <<"spawn">>],
                     [NewProc("worker", "exited", "call")
                         EXCEPT !.out = r, !.flushed = TRUE] >>

NextResponse ==
    \/ \E i \in Procs : HandleWorkerResponse(i)
    \/ \E i \in Procs : PrintLine(i)
    \/ \E i \in Procs : ReRaise(i)

SpecResponse == InitResponse /\ [][NextResponse]_vars

(***************************************************************************)
(* Properties.                                                             *)
(***************************************************************************)
\* The process has run the dispatcher and taken a branch.
Dispatched(p) == p.outcome # ""

\* Every predicate the dispatcher called returned a boolean.
Answered(p) == \A k \in DOMAIN p.evald : p.evald[k].ok

\* The process is a worker of packaging.py, where run() checks IS_WORKER_PROCESS.
GuardedWorker(p) == impl = "monolith" /\ IsWorker(p)

PredicateOrder == <<"is_active", "is_available", "manager_available">>

\* The predicates were called in the fixed order, each after the earlier ones
\* returned False, the last call being the first True (or the third call), and
\* the branch taken is the one of the first True.
FirstMatchWins(p) ==
    LET ev == p.evald
        n == Len(ev)
    IN  /\ n \in 1..3
        /\ \A k \in 1..n : ev[k].pred = PredicateOrder[k]
        /\ \A k \in 1..(n - 1) : ~ev[k].val
        /\ n < 3 => ev[n].val
        /\ ev[1].val = is_active(env, p.facts).val
        /\ n >= 2 => ev[2].val = is_available(env, p.facts).val
        /\ n = 3 => ev[3].val = manager_available(env, p.facts).val
        /\ p.outcome = CASE n = 1 -> "LOCAL"
                         [] n = 2 -> "REMOTE"
                         [] n = 3 -> IF ev[3].val THEN "NEEDS_CREATE" ELSE "UNSUPPORTED"

\* C1 as stated: every dispatch (run and run_in_environment alike) whose
\* predicates answered takes the branch of the first true predicate in the
\* order is_active, is_available, manager_available, one of the four outcomes.
C1_EveryDispatchFirstMatch ==
    \A i \in DOMAIN procs :
        (Dispatched(procs[i]) /\ Answered(procs[i])) => FirstMatchWins(procs[i])

\* C1 amended: the first true predicate decides the branch in
\* run_in_environment and in run outside a worker process; run inside a worker
\* process calls is_active alone and, when it is False, raises the worker-guard
\* error, a fifth outcome.
C1_FirstMatchOutsideWorker ==
    \A i \in DOMAIN procs :
        (Dispatched(procs[i]) /\ Answered(procs[i])) =>
            IF GuardedWorker(procs[i])
            THEN /\ Len(procs[i].evald) = 1
                 /\ procs[i].evald[1].pred = "is_active"
                 /\ procs[i].evald[1].val = is_active(env, procs[i].facts).val
                 /\ procs[i].outcome =
                        IF procs[i].evald[1].val THEN "LOCAL" ELSE "WORKER_GUARD"
            ELSE FirstMatchWins(procs[i])

\* A caller's dispatch went through all three predicates and ended in
\* NEEDS-CREATE.
C1_Witness ==
    \E i \in DOMAIN procs :
        /\ ~IsWorker(procs[i])
        /\ procs[i].pc = "done"
        /\ Len(procs[i].evald) = 3
        /\ procs[i].outcome = "NEEDS_CREATE"

\* The dispatcher call of the process is over (it returned or raised).
Finished(p) == p.pc \in {"done", "respond", "exited"}

\* The process returned v from its dispatcher call.
ReturnedValue(p, v) == Finished(p) /\ p.exception = None /\ p.retval = Plain(v)

\* The packaged callable was called in the process c and returned.
CallableReturnedIn(c) ==
    /\ "invoke" \in Range(c.effects)
    /\ doc.decodes
    /\ ~doc.raises

NoSideEffect(p) == Range(p.effects) \cap {"spawn", "decode_document", "invoke", "create"} = {}

\* is_active and is_available both answer False on the machine the process saw.
NeitherActiveNorAvailable(p) ==
    /\ is_active(env, p.facts).ok
    /\ ~is_active(env, p.facts).val
    /\ is_available(env, p.facts).ok
    /\ ~is_available(env, p.facts).val

CreateOrUnsupported(p) ==
    IF manager_available(env, p.facts).val THEN NeedsCreateError ELSE UnsupportedError

\* C3 as stated: when is_active and is_available are both false every dispatch
\* raises the "cannot yet be run in new environments" error if
\* manager_available is true and the "does not exist" error otherwise, having
\* spawned, decoded, called and created nothing.
C3_UnavailableRaisesCreateOrUnsupported ==
    \A i \in DOMAIN procs :
        (Dispatched(procs[i]) /\ NeitherActiveNorAvailable(procs[i])) =>
            /\ Finished(procs[i])
            /\ procs[i].exception = CreateOrUnsupported(procs[i])
            /\ NoSideEffect(procs[i])
            /\ i = Len(procs)

\* C3 amended: the same for run_in_environment and for run outside a worker
\* process; run inside a worker process raises the worker-guard error instead
\* (is_available and manager_available are not consulted), also without
\* spawning, decoding, calling or creating anything.
C3_UnavailableRaisesOutsideWorker ==
    \A i \in DOMAIN procs :
        (Dispatched(procs[i]) /\ NeitherActiveNorAvailable(procs[i])) =>
            /\ Finished(procs[i])
            /\ procs[i].exception =
                  IF GuardedWorker(procs[i]) THEN WorkerGuardError
                  ELSE CreateOrUnsupported(procs[i])
            /\ NoSideEffect(procs[i])
            /\ i = Len(procs)

\* A caller's dispatch found the environment neither active nor available and
\* no manager, and raised the "does not exist" error.
C3_Witness ==
    \E i \in DOMAIN procs :
        /\ ~IsWorker(procs[i])
        /\ procs[i].pc = "done"
        /\ NeitherActiveNorAvailable(procs[i])
        /\ procs[i].exception = UnsupportedError

\* The environment is not active but available on the machine the process saw.
InactiveButAvailable(p) ==
    /\ is_active(env, p.facts).ok
    /\ ~is_active(env, p.facts).val
    /\ is_available(env, p.facts).ok
    /\ is_available(env, p.facts).val

\* C4: a worker never spawns a worker: a dispatch inside a worker whose
\* environment is not active but available ends at once with the worker-guard
\* error, so at most one worker process exists in the chain, whatever the
\* predicates answer in the parent and in the worker.
C4_NoWorkerInsideWorker ==
    /\ Cardinality({ i \in DOMAIN procs : IsWorker(procs[i]) }) <= 1
    /\ \A i \in DOMAIN procs :
          IsWorker(procs[i]) =>
              /\ "spawn" \notin Range(procs[i].effects)
              /\ i = Len(procs)
              /\ (Dispatched(procs[i]) /\ InactiveButAvailable(procs[i])) =>
                    /\ Finished(procs[i])
                    /\ procs[i].exception = WorkerGuardError

\* A spawned worker ran the dispatcher on a machine where the environment is
\* not active but available, and raised the worker-guard error.
C4_Witness ==
    /\ Len(procs) = 2
    /\ ~IsWorker(procs[1])
    /\ "spawn" \in Range(procs[1].effects)
    /\ Dispatched(procs[2])
    /\ InactiveButAvailable(procs[2])
    /\ procs[2].exception = WorkerGuardError

\* What decoding the document and calling the function gives: the returned
\* value, or the exception of the decoding or of the call.
CallableException == IF ~doc.decodes \/ doc.raises THEN doc.obj ELSE None

CallableValue == IF doc.decodes /\ ~doc.raises THEN Plain(doc.obj) ELSE Plain(None)

\* C5: a dispatch that found the environment active decodes the document and
\* calls the function in its own process: it spawns nothing, frames nothing
\* and prints nothing of its own (only what user code printed), returns the callable's value as it is and lets the callable's (or
\* the decoding's) exception through as that same exception.
C5_LocalRunsInProcess ==
    \A i \in DOMAIN procs :
        (procs[i].outcome = "LOCAL" /\ procs[i].pc \in {"done", "respond"}) =>
            /\ i = Len(procs)
            /\ "spawn" \notin Range(procs[i].effects)
            /\ "decode_document" \in Range(procs[i].effects)
            /\ ("invoke" \in Range(procs[i].effects)) = doc.decodes
            /\ procs[i].out = <<>>
            /\ procs[i].printed \o procs[i].sink = procs[i].said
            /\ procs[i].exception = CallableException
            /\ procs[i].retval = CallableValue

\* A caller ran the callable locally and got its ValueError("boom").
C5_Witness ==
    /\ Len(procs) = 1
    /\ ~IsWorker(procs[1])
    /\ procs[1].outcome = "LOCAL"
    /\ procs[1].pc = "done"
    /\ doc.raises
    /\ procs[1].exception = Obj("ValueError", <<"boom">>, TRUE, TRUE, 70)

\* The worker i has ended.
Exited(i) == IsWorker(procs[i]) /\ procs[i].pc = "exited"

\* The text after the status line of what the worker wrote.
PayloadText(out) == SubSeq(out, 3, Len(out))

\* The pickled value the payload of the worker's output is the base64 text of.
PayloadOf(out) == decodebytes(PayloadText(out)).val

\* One response: a single status token, a newline, and the base64 text of one
\* pickle.
OneResponse(out) ==
    /\ Len(out) >= 3
    /\ out[1] \in {Word("RETURN"), Word("EXCEPTION")}
    /\ out[2] = NL
    /\ \A k \in 2..Len(out) : out[k].t # "word"
    /\ decodebytes(PayloadText(out)).ok

AllSucceeded(p) ==
    /\ p.request = "call"
    /\ doc.decodes
    /\ "invoke" \in Range(p.effects)
    /\ ~doc.raises
    /\ doc.obj.picklable

\* C7: a response is tagged RETURN exactly when request decoding, document
\* decoding and the call succeeded and the value could be encoded, and then its
\* payload is that value; otherwise it is tagged EXCEPTION and its payload is a
\* pair of an exception and the traceback snapshot taken of it in the worker.
C7_TagMatchesOutcome ==
    \A i \in DOMAIN procs :
        Exited(i) =>
            LET tag == procs[i].out[1].s
                payload == PayloadOf(procs[i].out)
            IN  /\ tag \in {"RETURN", "EXCEPTION"}
                /\ (tag = "RETURN") = AllSucceeded(procs[i])
                /\ tag = "RETURN" => payload = Plain(doc.obj)
                /\ tag = "EXCEPTION" =>
                      /\ payload.pair
                      /\ payload.tb.pid = i
                      /\ payload.tb.lines # <<>>
                      /\ payload.tb.lines[Len(payload.tb.lines)] = TbLine("exc", payload.obj)
                      /\ payload.obj \in {procs[i].exception,
                                          PickleError(PicklingFailure(procs[i].exception),
                                                      procs[i].exception),
                                          PickleError(PicklingFailure(procs[i].retval.obj),
                                                      procs[i].retval.obj)}

\* A worker whose document could not be decoded answered EXCEPTION with the
\* pair of that error and its traceback.
C7_Witness ==
    \E i \in DOMAIN procs :
        /\ Exited(i)
        /\ procs[i].request = "call"
        /\ ~doc.decodes
        /\ procs[i].out[1] = Word("EXCEPTION")
        /\ PayloadOf(procs[i].out) = Pair(DecodeError, from_exception(DecodeError, TRUE, i))

\* C8 as stated: the worker's output is exactly two lines, the status token and
\* the whole encoded result, and it is flushed.
C8_ExactlyTwoLines ==
    \A i \in DOMAIN procs :
        Exited(i) =>
            /\ Len(procs[i].out) = 4
            /\ procs[i].out[1].t = "word"
            /\ procs[i].out[2] = NL
            /\ procs[i].out[3].t = "b64"
            /\ procs[i].out[4] = NL
            /\ procs[i].flushed

\* C8 amended: the output is the status token on the first line followed by the
\* base64 text of the encoded result broken into lines of 76 characters, one
\* line per 57 bytes of the result and in order (so two lines in all only for a
\* result of at most 57 bytes), and it is flushed.
C8_StatusLineThenWrappedPayload ==
    \A i \in DOMAIN procs :
        Exited(i) =>
            LET out == procs[i].out
                n == Pieces(PickleSize(PayloadOf(out)))
            IN  /\ out[1].t = "word"
                /\ out[2] = NL
                /\ n >= 1
                /\ Len(out) = 2 + 2 * n
                /\ Count(out, NL) = 1 + n
                /\ \A k \in 1..n :
                      /\ out[2 * k + 1] = B64(PayloadOf(out), k)
                      /\ out[2 * k + 2] = NL
                /\ (Len(out) = 4) = (PickleSize(PayloadOf(out)) <= MAXBINSIZE)
                /\ procs[i].flushed

\* A worker returned the 100-byte value: a status line and two payload lines.
C8_Witness ==
    \E i \in DOMAIN procs :
        /\ Exited(i)
        /\ procs[i].out[1] = Word("RETURN")
        /\ PickleSize(PayloadOf(procs[i].out)) = 100
        /\ Count(procs[i].out, NL) = 3

\* The packaged callable was called in the worker c and raised.
CallableRaisedIn(c) == "invoke" \in Range(c.effects) /\ doc.decodes /\ doc.raises

\* The lines of the traceback snapshot the worker i takes of the exception e.
WorkerTraceback(e, i) == from_exception(e, TRUE, i).lines

\* C9 as stated: when the callable raises T(m) in the worker, the dispatch in
\* the parent raises T(m), and all captured traceback lines are printed before
\* it is raised.
C9_SameExceptionAfterTraceback ==
    \A i \in DOMAIN procs :
        (i < Len(procs) /\ CallableRaisedIn(procs[i + 1])) =>
            /\ procs[i].pc = "print" => procs[i].exception = None
            /\ Finished(procs[i]) =>
                  /\ procs[i].exception.cls = doc.obj.cls
                  /\ procs[i].exception.msg = doc.obj.msg
                  /\ procs[i].printed = WorkerTraceback(doc.obj, i + 1)

\* C9 amended: when the callable raises in the worker an exception T(m) that
\* survives a pickle round trip, the dispatch in the parent raises T(m), after
\* all captured traceback lines were printed.  For an exception that cannot be
\* pickled the parent raises PickleError instead, after its one-line traceback
\* was printed; for one that is pickled but cannot be loaded again the parent
\* raises the malformed-payload RuntimeError and prints nothing.
C9_SameEncodableExceptionAfterTraceback ==
    \A i \in DOMAIN procs :
        (i < Len(procs) /\ CallableRaisedIn(procs[i + 1])) =>
            /\ procs[i].pc = "print" => procs[i].exception = None
            /\ Finished(procs[i]) =>
                  IF ~doc.obj.picklable
                  THEN /\ procs[i].exception.cls = "PickleError"
                       /\ procs[i].printed = <<TbLine("exc", procs[i].exception)>>
                  ELSE IF doc.obj.cls \in Unloadable
                  THEN /\ procs[i].exception = MalformedPayload
                       /\ procs[i].printed = <<>>
                  ELSE /\ procs[i].exception.cls = doc.obj.cls
                       /\ procs[i].exception.msg = doc.obj.msg
                       /\ procs[i].printed = WorkerTraceback(doc.obj, i + 1)

\* The parent has raised the ValueError("boom") of the callable that ran in its
\* worker, the three traceback lines printed.
C9_Witness ==
    /\ Len(procs) = 2
    /\ CallableRaisedIn(procs[2])
    /\ procs[1].pc = "done"
    /\ procs[1].exception = Obj("ValueError", <<"boom">>, TRUE, TRUE, 70)
    /\ Len(procs[1].printed) = 3

\* The text has a newline between two tokens that are not newlines.
HasSeparator(r) ==
    \E j, k, l \in DOMAIN r :
        j < k /\ k < l /\ r[j].t # "nl" /\ r[k].t = "nl" /\ r[l].t # "nl"

\* The text before the separator, without the white space around the response.
StatusOf(r) ==
    IF HasSeparator(r) THEN SubSeq(Strip(r), 1, FirstNL(Strip(r)) - 1) ELSE <<>>

\* The text after the separator.
EncodedOf(r) ==
    IF HasSeparator(r) THEN SubSeq(Strip(r), FirstNL(Strip(r)) + 1, Len(Strip(r))) ELSE <<>>

\* C10: on a response without a newline separator, or whose status is neither
\* RETURN nor EXCEPTION, handle_worker_response raises RuntimeError (no value,
\* no other error); it returns a value only when the status is exactly RETURN
\* and the payload decodes, and then that decoded value.
C10_MalformedResponseRaises ==
    (Len(procs) = 2 /\ procs[1].pc = "done") =>
        LET r == procs[2].out
        IN  /\ (~HasSeparator(r)
                  \/ StatusOf(r) \notin {<<Word("RETURN")>>, <<Word("EXCEPTION")>>})
                 => procs[1].exception.cls = "RuntimeError"
            /\ procs[1].exception = None =>
                 /\ HasSeparator(r)
                 /\ StatusOf(r) = <<Word("RETURN")>>
                 /\ loads_decodebytes(EncodedOf(r)).ok
                 /\ procs[1].retval = loads_decodebytes(EncodedOf(r)).val

\* The parent read a child's output that has a status word but no separator and
\* raised the malformed-response error.
C10_Witness ==
    /\ Len(procs) = 2
    /\ procs[1].pc = "done"
    /\ procs[2].out = <<Word("RETURN")>>
    /\ procs[1].exception = MalformedResponse

\* The response of the worker i: status, newline and the base64 lines of its
\* encoded result, a text in which nothing of what user code printed occurs.
ResponseOf(i) ==
    LET r == EncodeResult(procs[i].exception, procs[i].retval, i)
    IN  <<Word(r.status), NL>> \o encodebytes(r.result.blob)

\* C11: in a worker sys.stdout is the null sink from before the request is
\* decoded on and while user code runs; everything user code prints ends in the
\* sink, and what the worker writes to its parent is the response alone, the
\* same text whatever was printed, with nothing before, inside or after it.
C11_UserPrintsNeverReachParent ==
    \A i \in DOMAIN procs :
        IsWorker(procs[i]) =>
            /\ procs[i].effects # <<>> => procs[i].devnull
            /\ procs[i].sink = procs[i].said
            /\ procs[i].pc # "exited" => procs[i].out = <<>>
            /\ procs[i].pc = "exited" => procs[i].out = ResponseOf(i)

\* A worker whose callable printed text that looks like a response and then
\* raised has answered EXCEPTION.
C11_Witness ==
    \E i \in DOMAIN procs :
        /\ Exited(i)
        /\ procs[i].said = <<Word("RETURN"), NL, Word("gASVBQ=="), NL>>
        /\ "invoke" \in Range(procs[i].effects)
        /\ procs[i].out[1] = Word("EXCEPTION")

(***************************************************************************)
(* Serializers: from a function to the content of its document and back.  *)
(***************************************************************************)
\* Pure functions of two arguments, with what f(1, 2) is.
\*   toplevel  defined at the top level of an importable module; otherwise
\*             inside another function: "<locals>" is part of the qualified
\*             name and the lines of the source text are indented
\*   closed    the body uses no name of its module (gcd calls itself)
Functions ==
    { [name |-> "add", toplevel |-> TRUE, closed |-> TRUE, value |-> 3],
      [name |-> "gcd", toplevel |-> TRUE, closed |-> FALSE, value |-> 1],
      [name |-> "inner", toplevel |-> FALSE, closed |-> TRUE, value |-> 2] }

\* What an operation gives: a value, or the class of the exception it raised;
\* ran tells whether source text was executed on the way.
Done(v) == [ok |-> TRUE, val |-> v, err |-> "", ran |-> FALSE]

Fail(e) == [ok |-> FALSE, val |-> NoFunction, err |-> e, ran |-> FALSE]

Ran(r) == [r EXCEPT !.ran = TRUE]

\* A function object: the function and the globals its body sees ("module":
\* those of the module that defines it, "fresh": the empty dict of exec).
Callable(f, g) == [fn |-> f, globals |-> g]

\* f(1, 2): a name of the module is found only in the module's globals.
Apply(c) ==
    IF c.globals = "fresh" /\ ~c.fn.closed THEN Fail("NameError") ELSE Done(c.fn.value)

\* inspect.getsource(f): the lines of the definition as they stand in the file.
getsource(f) == [defines |-> {f.name}, indented |-> ~f.toplevel, fn |-> f]

\* to_qualified_name(f): f.__module__ + "." + f.__qualname__
to_qualified_name(f) == [fmt |-> "name", importable |-> f.toplevel, fn |-> f]

\* from_qualified_name(name): import the module, get the attribute.
from_qualified_name(name) ==
    IF name.fmt # "name" THEN Fail("ModuleNotFoundError")
    ELSE IF ~name.importable THEN Fail("ModuleNotFoundError")
    ELSE Done(Callable(name.fn, "module"))

\* PickleSerializer: base64.encodebytes(pickler.dumps(obj)) and back.
PickleSerializer_dumps(f) == Done([fmt |-> "pickle", fn |-> f])

PickleSerializer_loads(blob) ==
    IF blob.fmt = "pickle" THEN Done(Callable(blob.fn, "module"))
    ELSE Fail("UnpicklingError")

\* json.dumps({"source": ..., "symbol_name": ...})
Envelope(keys, source, symbol_name) ==
    [fmt |-> "json", dict |-> TRUE, keys |-> keys,
     source |-> source, symbol_name |-> symbol_name]

SourceSerializer_dumps(f) ==
    Done(Envelope({"source", "symbol_name"}, getsource(f), f.name))

\* SourceSerializer.loads: json.loads, the check of the envelope, exec of the
\* source in two empty dicts, symbols[document["symbol_name"]].
SourceSerializer_loads(blob) ==
    IF blob.fmt # "json" THEN Fail("JSONDecodeError")
    ELSE IF ~blob.dict \/ blob.keys # {"source", "symbol_name"}
    THEN Fail("ValueError")
    ELSE IF blob.source.indented THEN Ran(Fail("IndentationError"))
    ELSE IF blob.symbol_name \notin blob.source.defines
    THEN Ran(Fail("KeyError"))
    ELSE Ran(Done(Callable(blob.source.fn, "fresh")))

\* ImportSerializer / ReferenceSerializer
ImportSerializer_dumps(f) == Done(to_qualified_name(f))

ImportSerializer_loads(blob) == from_qualified_name(blob)

\* stable_hash(content): the hex digest that names the file.
stable_hash(content) == [md5 |-> content]

\* FileSerializer.dumps with the inner serializer s: the content goes to the
\* file basepath / key, the path is what the document holds.
FileSerializer_path(basepath, content) ==
    [fmt |-> "path", basepath |-> basepath, key |-> stable_hash(content)]

\* with fs.open(path, mode="rb") as file: content = file.read()
ReadFile(fs, path) ==
    IF \E f \in fs : f.path = path
    THEN Done((CHOOSE f \in fs : f.path = path).content)
    ELSE Fail("FileNotFoundError")

\* The strategies and what names them in a document: the members of
\* SerializerType (packaging.py), the class a class_import_path imports
\* (packaging/abc.py).
SerializerType == {"pickle", "source", "reference"}

SERIALIZER_IMPLEMENTATIONS ==
    [ t \in SerializerType |->
        CASE t = "source" -> "source"
          [] t = "pickle" -> "pickle"
          [] t = "reference" -> "import" ]

SerializerClasses ==
    { "PickleSerializer", "SourceSerializer", "ImportSerializer", "FileSerializer" }

ClassKind ==
    [ c \in SerializerClasses |->
        CASE c = "SourceSerializer" -> "source"
          [] c = "PickleSerializer" -> "pickle"
          [] c = "ImportSerializer" -> "import"
          [] c = "FileSerializer" -> "file" ]

\* The tags a document of the variant can name, and the strategy of a tag.
Registered(i) == IF i = "monolith" THEN SerializerType ELSE SerializerClasses

KindOf(i, tag) ==
    IF i = "monolith" THEN SERIALIZER_IMPLEMENTATIONS[tag] ELSE ClassKind[tag]

\* The serializers serialize-demo.py builds, SourceSerializer(),
\* PickleSerializer(), ImportSerializer(), FileSerializer(serializer=
\* PickleSerializer()), and a FileSerializer that is given its basepath.
SerializerCalls ==
    { [class |-> c, basepath |-> "unset"] : c \in SerializerClasses }
    \cup { [class |-> "FileSerializer", basepath |-> "docs"] }

\* Building the serializer: pydantic gives a field that is left out its
\* default, or default_factory() where one is declared.  FileSerializer
\* declares basepath with default_factory=Path("."), an object that cannot be
\* called.
Construct(c) ==
    IF c.class = "FileSerializer" /\ c.basepath = "unset"
    THEN Fail("TypeError")
    ELSE Done(c)

\* dumps of the strategies that need no file.
dumps_of(kind, f) ==
    CASE kind = "pickle" -> PickleSerializer_dumps(f)
      [] kind = "source" -> SourceSerializer_dumps(f)
      [] kind = "import" -> ImportSerializer_dumps(f)

\* loads of a strategy; FileSerializer reads the file and hands its content to
\* the inner PickleSerializer.
loads_of(kind, blob, fs) ==
    CASE kind = "pickle" -> PickleSerializer_loads(blob)
      [] kind = "source" -> SourceSerializer_loads(blob)
      [] kind = "import" -> ImportSerializer_loads(blob)
      [] kind = "file" ->
            LET content == ReadFile(fs, blob)
            IN  IF content.ok THEN PickleSerializer_loads(content.val) ELSE content

\* A document: the tag of its strategy and the content; made tells that it was
\* produced here by encoding the function.
Document(tag, basepath, content, made) ==
    [stage |-> "encoded", tag |-> tag, basepath |-> basepath,
     content |-> content, made |-> made]

\* Encoding failed: there is no document, the error is what the call raised.
Failed(r) == [stage |-> "done", by |-> "", decoded |-> r, res |-> r]

\* PythonCallableDocument.from_callable(function, serializer=c)
FromCallable ==
    /\ impl = "execution"
    /\ calldoc = NoDocument
    /\ \E c \in SerializerCalls :
          LET s == Construct(c)
              kind == ClassKind[c.class]
              inner == PickleSerializer_dumps(function).val
              path == FileSerializer_path(c.basepath, inner)
          IN  IF ~s.ok
              THEN /\ calldoc' = [stage |-> "failed"]
                   /\ called' = Failed(s)
                   /\ files' = files
              ELSE IF kind = "file"
              THEN /\ calldoc' = Document(c.class, c.basepath, path, TRUE)
                   /\ files' = { f \in files : f.path # path }
                                  \cup { [path |-> path, content |-> inner] }
                   /\ called' = called
              ELSE /\ calldoc' = Document(c.class, c.basepath,
                                          dumps_of(kind, function).val, TRUE)
                   /\ UNCHANGED <<files, called>>
    /\ UNCHANGED <<impl, env, doc, args, procs, threads, function, hostVars>>

\* package(serializer_type, obj)
Package ==
    /\ impl = "monolith"
    /\ calldoc = NoDocument
    /\ \E t \in SerializerType :
          calldoc' = Document(t, "unset",
                              dumps_of(SERIALIZER_IMPLEMENTATIONS[t], function).val, TRUE)
    /\ UNCHANGED <<impl, env, doc, args, procs, threads, function, files, called, hostVars>>

\* What the serializer field of a document that arrives as JSON can name: a
\* registered strategy, or
\*   monolith   "yaml": no member of SerializerType
\*   execution  "":              no class_import_path at all
\*              "NoSuchSerializer": a path that cannot be imported
\*              "base64":        a path that imports something that is no class
\*              "PurePath":      a path that imports a class that is no Serializer
\*              "JsonCodec":     such a class that has a method named loads
ForeignTags(i) ==
    IF i = "monolith" THEN {"yaml"}
    ELSE {"", "NoSuchSerializer", "base64", "PurePath", "JsonCodec"}

\* The contents a received document can hold for the function f: what the
\* strategies produce, and source envelopes that are not as they should be.
ReceivedContents(f) ==
    { PickleSerializer_dumps(f).val,
      ImportSerializer_dumps(f).val,
      SourceSerializer_dumps(f).val,
      Envelope({"source", "symbol_name"}, getsource(f), "missing"),
      Envelope({"source"}, getsource(f), f.name),
      Envelope({"symbol_name"}, getsource(f), f.name),
      Envelope({}, getsource(f), f.name),
      Envelope({"source", "symbol_name", "extra"}, getsource(f), f.name),
      [Envelope({"source", "symbol_name"}, getsource(f), f.name) EXCEPT !.dict = FALSE] }

\* explicit: the JSON spells out the serializer's own fields (picklelib, ...),
\* as the JSON of a document made by from_callable does.
ReceivedDocuments(i, f) ==
    { [stage |-> "received", tag |-> t, basepath |-> "docs", content |-> c,
       made |-> FALSE, explicit |-> x] :
         t \in Registered(i) \cup ForeignTags(i),
         c \in ReceivedContents(f),
         x \in BOOLEAN }

\* parse_raw of the monolith: the serializer field is a SerializerType.
ParsePyObjectDocument(d) ==
    IF d.tag \in SerializerType THEN Done(d.tag) ELSE Fail("ValidationError")

\* parse_raw of packaging/abc.py: Serializer.__new__ imports class_import_path
\* and makes an object of what it finds; the fields are validated afterwards,
\* by the __init__ of a Serializer, which an object of another class never runs.
\*   - a validator of PickleSerializer (check_picklelib) returns nothing, so a
\*     picklelib that is spelled out becomes None and check_picklelib_version
\*     fails on it; FileSerializer holds a PickleSerializer
\*   - FileSerializer without basepath: see Construct
ParsePythonCallableDocument(d) ==
    CASE d.tag = "" -> Fail("TypeError")
      [] d.tag = "NoSuchSerializer" -> Fail("ModuleNotFoundError")
      [] d.tag = "base64" -> Fail("TypeError")
      [] d.tag \in {"PurePath", "JsonCodec"} -> Done(d.tag)
      [] d.tag \in {"PickleSerializer", "FileSerializer"} ->
            IF d.explicit THEN Fail("AttributeError")
            ELSE IF d.tag = "FileSerializer" THEN Fail("TypeError")
            ELSE Done(d.tag)
      [] OTHER -> Done(d.tag)

\* A document arrives as JSON and is parsed.
ParseDocument ==
    /\ calldoc.stage = "received"
    /\ LET r == IF impl = "monolith" THEN ParsePyObjectDocument(calldoc)
                ELSE ParsePythonCallableDocument(calldoc)
       IN  IF r.ok
           THEN /\ calldoc' = Document(calldoc.tag, calldoc.basepath, calldoc.content, FALSE)
                /\ called' = called
           ELSE /\ calldoc' = [calldoc EXCEPT !.stage = "rejected"]
                /\ called' = Failed(r)
    /\ UNCHANGED <<impl, env, doc, args, procs, threads, function, files, hostVars>>

\* The strategy that decodes the document d: "foreign" is the loads of a class
\* that is no Serializer, "" stands for a serializer object without loads.
DecoderOf(i, d) ==
    IF d.tag \in Registered(i) THEN KindOf(i, d.tag)
    ELSE IF d.tag = "JsonCodec" THEN "foreign"
    ELSE ""

\* fn = document.to_callable() (unpackage(document)); fn(1, 2)
ToCallableAndCall ==
    /\ calldoc.stage = "encoded"
    /\ called = NotCalled
    /\ LET kind == DecoderOf(impl, calldoc)
           r == IF kind = "" THEN Fail("AttributeError")
                ELSE IF kind = "foreign" THEN Done(Callable(NoFunction, "module"))
                ELSE loads_of(kind, calldoc.content, files)
       IN  called' = [stage |-> "done", by |-> kind, decoded |-> r,
                      res |-> IF r.ok THEN Apply(r.val) ELSE r]
    /\ UNCHANGED <<impl, env, doc, args, procs, threads, function, calldoc, files, hostVars>>

\* PREFECT_REGISTER_PATHS in the environment of the process that imports
\* packaging/worker.py: not set, empty, "os", "os,re".
RegisterPaths == {Unset, <<>>, <<"o", "s">>, <<"o", "s", ",", "r", "e">>}

\* ImportSerializer.loads(path.encode()): loads is looked up on the class, so
\* the bytes are taken as self and no blob is passed.
ImportSerializer_loads_on_class(path) == Fail("TypeError")

\* The module body of packaging/worker.py: "if REGISTER_PATHS: for path in
\* REGISTER_PATHS: ImportSerializer.loads(path.encode())".  Iterating a str
\* yields its characters; the first call that raises ends the import of the
\* module, and the process never reaches handle_worker_request.
register_paths(value) ==
    IF value = Unset \/ value = <<>>
    THEN [ok |-> TRUE, imported |-> <<>>, err |-> ""]
    ELSE LET failing == { k \in 1..Len(value) :
                            ~ImportSerializer_loads_on_class(value[k]).ok }
             n == IF failing = {} THEN Len(value)
                  ELSE (CHOOSE k \in failing : \A j \in failing : k <= j) - 1
         IN  [ok |-> failing = {},
              imported |-> [k \in 1..n |-> <<value[k]>>],
              err |-> IF failing = {} THEN "" ELSE "TypeError"]

\* A process of packaging/ imports the worker module (the worker at its
\* start, the caller inside run_in_environment).
ImportWorkerModule ==
    /\ impl = "execution"
    /\ \E value \in RegisterPaths :
          last' = [op |-> "import_worker", value |-> value,
                   res |-> register_paths(value)]
    /\ UNCHANGED <<impl, env, doc, args, procs, threads, function, calldoc, files, called, machine>>

InitSerializers ==
    /\ impl \in Impls
    /\ env = [kind |-> "bare", hasName |-> FALSE, hasPath |-> FALSE]
    /\ doc = [decodes |-> TRUE, raises |-> FALSE, obj |-> None]
    /\ args = Obj("tuple", <<"(1, 2)">>, TRUE, TRUE, 20)
    /\ procs = <<>>
    /\ threads = NoThreads
    /\ function \in Functions
    /\ calldoc \in {NoDocument} \cup ReceivedDocuments(impl, function)
    /\ files = {}
    /\ called = NotCalled
    /\ IdleHost

NextSerializers ==
    \/ FromCallable
    \/ Package
    \/ ParseDocument
    \/ ToCallableAndCall
    \/ ImportWorkerModule

SpecSerializers == InitSerializers /\ [][NextSerializers]_vars

\* The document was made here from the function and has been decoded and called.
RoundTripDone == calldoc.stage = "encoded" /\ calldoc.made /\ called.stage = "done"

\* C12: round-trip law.  For each strategy (pickle, source, import/reference,
\* file over pickle) encoding the function gives a document, and the callable
\* decoded from it with the recorded strategy, called with (1, 2), returns
\* what the function returns for (1, 2).
C12_RoundTripLaw ==
    /\ calldoc.stage # "failed"
    /\ RoundTripDone =>
          /\ called.by = KindOf(impl, calldoc.tag)
          /\ called.res.ok
          /\ called.res.val = function.value

\* The envelope a source-strategy decode was given.
SourceDecoded == called.stage = "done" /\ called.by = "source"

\* An object with both keys "source" and "symbol_name".
HasBothKeys(blob) ==
    blob.fmt = "json" /\ blob.dict /\ {"source", "symbol_name"} \subseteq blob.keys

\* The classes of validation errors: ValueError and its subclasses.
ValidationErrors == {"ValueError", "JSONDecodeError"}

\* C13: decoding with the source strategy fails with a validation error,
\* without executing any source, when the envelope is not an object with both
\* keys, and fails with a validation error when the envelope is well formed but
\* the source, executed, does not define the named symbol; it never gives None.
C13_SourceDecodeValidates ==
    SourceDecoded =>
        /\ ~HasBothKeys(calldoc.content) =>
              /\ ~called.decoded.ok
              /\ called.decoded.err \in ValidationErrors
              /\ ~called.decoded.ran
        /\ ( /\ HasBothKeys(calldoc.content)
             /\ calldoc.content.keys = {"source", "symbol_name"}
             /\ ~calldoc.content.source.indented
             /\ calldoc.content.symbol_name \notin calldoc.content.source.defines ) =>
              /\ ~called.decoded.ok
              /\ called.decoded.err \in ValidationErrors
        /\ called.decoded.ok => called.decoded.val.fn = function

\* The document names a strategy (it is not the absent or the failed document).
Tagged == calldoc.stage \in {"received", "rejected", "encoded"}

\* C14: a document whose tag is not a registered strategy is rejected when it
\* is parsed or decoded: no decoder runs on it, none as a default either, and
\* decoding gives an error; a registered tag stands for exactly one serializer,
\* the one that decodes the documents that carry it.
C14_UnknownTagRejected ==
    /\ \A i \in Impls : \A t, u \in Registered(i) :
          KindOf(i, t) = KindOf(i, u) => t = u
    /\ (Tagged /\ called.stage = "done") =>
          IF calldoc.tag \in Registered(impl)
          THEN calldoc.stage = "encoded" => called.by = KindOf(impl, calldoc.tag)
          ELSE called.by = "" /\ ~called.decoded.ok

(***************************************************************************)
(* Environments: the host, detection, creation, the descriptors' methods. *)
(***************************************************************************)
\* os.environ: three variables the functions touch and one they do not; the
\* process starts in a plain shell or in one where another environment with
\* a home override is activated.
Environs ==
    { [v \in {"PATH", "PYTHONHOME", "VIRTUAL_ENV", "LANG"} |->
         CASE v = "PATH" -> p
           [] v = "PYTHONHOME" -> h
           [] v = "VIRTUAL_ENV" -> IF h = Unset THEN Unset ELSE <<"/old-venv">>
           [] v = "LANG" -> <<"C">>] :
      p \in {Unset, <<"/usr/bin">>}, h \in {Unset, <<"/opt/py">>} }

\* What "conda env export --json" does on the host:
\*   "absent"  the conda executable cannot be started
\*   "fails"   it exits with a status that is not 0
\*   "error"   it prints JSON with the key "error"
\*   "nokeys"  it prints JSON without "prefix" and "name"
\*   "ok"      it prints the active environment: prefix, name (exportName: the
\*             name is not empty), dependencies; exeInPrefix: sys.executable
\*             is <prefix>/bin/python
Machines ==
    { [conda |-> c, exportName |-> FALSE, exeInPrefix |-> FALSE, environ |-> ev, cwd |-> d] :
         c \in {"absent", "fails", "error", "nokeys"}, ev \in Environs, d \in {"/proj", "/home"} }
    \cup
    { [conda |-> "ok", exportName |-> n, exeInPrefix |-> x, environ |-> ev, cwd |-> d] :
         n \in BOOLEAN, x \in BOOLEAN, ev \in Environs, d \in {"/proj", "/home"} }

\* Paths: the directory and the last component.
Path(base, leaf) == [base |-> base, leaf |-> leaf]

NoPath == Path("", <<>>)

\* The prefix and the name conda reports for the active environment.
ActivePrefix == Path("/opt/conda/envs", <<<<"proj">>>>)

ActiveName == "proj"

\* A descriptor: the variant and, for conda and venv, how it is located.
Descriptor(kind, name, path) ==
    [kind |-> kind, hasName |-> name # "", hasPath |-> path # NoPath,
     name |-> name, path |-> path]

\* None where a descriptor is expected.
NoDescriptor == Descriptor("none", "", NoPath)

\* What a detection or creation gives: a descriptor (or None), or the class of
\* the exception it raised.
Found(d) == [ok |-> TRUE, val |-> d, err |-> ""]

Threw(e) == [ok |-> FALSE, val |-> NoDescriptor, err |-> e]

\* detect_conda_environment(): only CalledProcessError is caught around the
\* call of conda; name takes precedence over path.
detect_conda_environment(m) ==
    CASE m.conda = "absent" -> Threw("FileNotFoundError")
      [] m.conda = "fails" -> Found(NoDescriptor)
      [] m.conda = "error" -> Found(NoDescriptor)
      [] m.conda = "nokeys" -> Threw("KeyError")
      [] m.conda = "ok" ->
            IF ~m.exeInPrefix THEN Found(NoDescriptor)
            ELSE IF m.exportName THEN Found(Descriptor("conda", ActiveName, NoPath))
            ELSE Found(Descriptor("conda", "", ActivePrefix))

\* detect_venv_environment(): not implemented, None.
detect_venv_environment == Found(NoDescriptor)

\* detect_bare_environment()
detect_bare_environment == Found(Descriptor("bare", "", NoPath))

\* detect_environment(): conda or venv or bare.
detect_environment(m) ==
    LET c == detect_conda_environment(m)
    IN  IF ~c.ok THEN c
        ELSE IF c.val # NoDescriptor THEN c
        ELSE IF detect_venv_environment.val # NoDescriptor THEN detect_venv_environment
        ELSE detect_bare_environment

\* A call of detect_environment().
DetectEnvironment ==
    /\ last' = [op |-> "detect_environment", res |-> detect_environment(machine)]
    /\ UNCHANGED <<impl, env, doc, args, procs, threads, function, calldoc, files, called, machine>>

\* A call of detect_conda_environment().
DetectCondaEnvironment ==
    /\ last' = [op |-> "detect_conda_environment", res |-> detect_conda_environment(machine)]
    /\ UNCHANGED <<impl, env, doc, args, procs, threads, function, calldoc, files, called, machine>>

\* A command line, or the exception raised instead.
Command(c) == [ok |-> TRUE, val |-> c, err |-> None]

NoCommand(x) == [ok |-> FALSE, val |-> <<>>, err |-> x]

\* python_command that names the environment "None" when it has no name.
python_command_without_check(e) ==
    CASE e.kind = "bare" -> Command(<<"python<version>">>)
      [] e.kind = "venv" -> Command(<<"<path>/bin/python">>)
      [] e.kind = "conda" ->
            IF e.hasPath THEN Command(<<"conda", "run", "--prefix", "<path>", "python">>)
            ELSE IF e.hasName THEN Command(<<"conda", "run", "--name", "<name>", "python">>)
            ELSE Command(<<"conda", "run", "--name", "None", "python">>)

\* python_command(): conda prefers the path to the name.
python_command(e) ==
    CASE e.kind = "bare" -> Command(<<"python<version>">>)
      [] e.kind = "venv" -> Command(<<"<path>/bin/python">>)
      [] e.kind = "conda" ->
            IF e.hasPath THEN Command(<<"conda", "run", "--prefix", "<path>", "python">>)
            ELSE IF e.hasName THEN Command(<<"conda", "run", "--name", "<name>", "python">>)
            ELSE NoCommand(NeitherSet)

\* python_variables(): what is returned and what os.environ is afterwards.
\* VenvEnvironment reads env["PATH"] of its copy.
python_variables(e, environ) ==
    IF e.kind # "venv"
    THEN [ok |-> TRUE, ret |-> environ, environ |-> environ, err |-> ""]
    ELSE IF environ["PATH"] = Unset
    THEN [ok |-> FALSE, ret |-> environ, environ |-> environ, err |-> "KeyError"]
    ELSE [ok |-> TRUE,
          ret |-> [environ EXCEPT !["PATH"] = <<"<path>/bin">> \o environ["PATH"],
                                  !["PYTHONHOME"] = Unset,
                                  !["VIRTUAL_ENV"] = <<"<path>">>],
          environ |-> environ,
          err |-> ""]

\* A call of a method of the descriptor e on a host where it observes f.
MethodCall(op, e, f, res) == [op |-> op, env |-> e, facts |-> f, res |-> res]

CallIsActive ==
    /\ \E e \in Envs : \E f \in FactsFor(e) :
          last' = MethodCall("is_active", e, f, is_active(e, f))
    /\ UNCHANGED <<impl, env, doc, args, procs, threads, function, calldoc, files, called, machine>>

CallIsAvailable ==
    /\ \E e \in Envs : \E f \in FactsFor(e) :
          last' = MethodCall("is_available", e, f, is_available(e, f))
    /\ UNCHANGED <<impl, env, doc, args, procs, threads, function, calldoc, files, called, machine>>

CallManagerAvailable ==
    /\ \E e \in Envs : \E f \in FactsFor(e) :
          last' = MethodCall("manager_available", e, f, manager_available(e, f))
    /\ UNCHANGED <<impl, env, doc, args, procs, threads, function, calldoc, files, called, machine>>

CallPythonCommand ==
    /\ \E e \in Envs :
          last' = MethodCall("python_command", e, NoFacts, python_command(e))
    /\ UNCHANGED <<impl, env, doc, args, procs, threads, function, calldoc, files, called, machine>>

CallPythonVariables ==
    /\ \E e \in Envs :
          LET r == python_variables(e, machine.environ)
          IN  /\ last' = [op |-> "python_variables", env |-> e,
                          before |-> machine.environ, res |-> r]
              /\ machine' = [machine EXCEPT !.environ = r.environ]
    /\ UNCHANGED <<impl, env, doc, args, procs, threads, function, calldoc, files, called>>

\* shutil.which on the host m: the interpreter is installed, the conda
\* tool may be, nothing else is.
shutil_which(m, exe) == exe = "python3" \/ (exe = "conda" /\ m.conda # "absent")

\* hash_objects: one path part computed from the arguments in their order
\* and from nothing else.
hash_objects(objects) == <<"md5">> \o objects

\* Path(".") / "prefect-env": relative, whatever the directory of m is.
get_default_env_directory(m) == Path(".", <<<<"prefect-env">>>>)

\* base / part
Div(base, part) == Path(base.base, Append(base.leaf, part))

\* The arguments of create_venv_environment; the empty path is None.
VenvSpecs ==
    { [requirements |-> r, python_executable |-> x, path |-> p] :
      r \in {<<>>, <<"numpy">>},
      x \in {"python3", "python2.9"},
      p \in {NoPath, Path("/envs", <<<<"mine">>>>)} }

\* What the external commands of create_venv_environment do.
VenvTools == {"ok", "venv-exit-1", "pip-exit-1", "version-exit-1"}

\* The result of a creation: the descriptor or the exception, the path the
\* creation commands were given, if it got that far, and the external
\* commands that were run, in order.
Created(d, target, ran) ==
    [ok |-> TRUE, val |-> d, err |-> "", target |-> target, ran |-> ran]

NotCreated(e, target, ran) ==
    [ok |-> FALSE, val |-> NoDescriptor, err |-> e, target |-> target, ran |-> ran]

\* What create_venv_environment does with the path: python -m venv, pip
\* install, python --version, each through check_call or check_output, then
\* the descriptor.
venv_create(environment_path, tool) ==
    IF tool = "venv-exit-1"
    THEN NotCreated("CalledProcessError", environment_path, <<"venv">>)
    ELSE IF tool = "pip-exit-1"
    THEN NotCreated("CalledProcessError", environment_path, <<"venv", "pip">>)
    ELSE IF tool = "version-exit-1"
    THEN NotCreated("CalledProcessError", environment_path, <<"venv", "pip", "version">>)
    ELSE Created(Descriptor("venv", "", environment_path), environment_path,
                 <<"venv", "pip", "version">>)

\* create_venv_environment with the default directory resolved against
\* the directory the process is in.
create_venv_environment_in_cwd(m, a, tool) ==
    IF ~shutil_which(m, a.python_executable) THEN NotCreated("ValueError", NoPath, <<>>)
    ELSE LET environment_path ==
                 IF a.path # NoPath THEN a.path
                 ELSE Div(Path(m.cwd, <<<<"prefect-env">>>>),
                          hash_objects(a.requirements \o <<"|", a.python_executable>>))
         IN  venv_create(environment_path, tool)

create_venv_environment(m, a, tool) ==
    IF ~shutil_which(m, a.python_executable) THEN NotCreated("ValueError", NoPath, <<>>)
    ELSE LET environment_path ==
                 IF a.path # NoPath THEN a.path
                 ELSE Div(get_default_env_directory(m),
                          hash_objects(a.requirements \o <<"|", a.python_executable>>))
         IN  venv_create(environment_path, tool)

\* The arguments of create_conda_environment; the empty string and the
\* empty path are None.
CondaSpecs ==
    { [requirements |-> r, conda_requirements |-> c, python_version |-> v,
       base_path |-> b, name |-> n, conda_executable |-> "conda"] :
      r \in {<<"numpy">>},
      c \in {<<"pip">>},
      v \in {"", "3.9"},
      b \in {NoPath, Path("/envs", <<>>)},
      n \in {"", "mine"} }

\* What the external commands of create_conda_environment do.
CondaTools ==
    {"ok", "create-exit-1", "bad-json", "no-success", "other-prefix", "pip-exit-1"}

\* What create_conda_environment does once the command line is built: the
\* create command, the checks of its result the execution variant makes,
\* the installation, the descriptor.
conda_create(i, a, environment_path, tool) ==
    IF tool = "create-exit-1"
    THEN NotCreated("CalledProcessError", environment_path, <<"create">>)
    ELSE IF i = "execution" /\ tool = "bad-json"
    THEN NotCreated("JSONDecodeError", environment_path, <<"create">>)
    ELSE IF i = "execution" /\ tool \in {"no-success", "other-prefix"}
    THEN NotCreated("AssertionError", environment_path, <<"create">>)
    ELSE IF tool = "pip-exit-1"
    THEN NotCreated("CalledProcessError", environment_path, <<"create", "pip">>)
    ELSE Created(Descriptor("conda", a.name, environment_path), environment_path,
                 <<"create", "pip">>)

\* create_conda_environment with environment_path bound in both branches.
create_conda_environment_path_bound(m, i, a, tool) ==
    IF ~shutil_which(m, a.conda_executable) THEN NotCreated("RuntimeError", NoPath, <<>>)
    ELSE IF a.name # "" /\ a.base_path # NoPath
    THEN NotCreated("ValueError", NoPath, <<>>)
    ELSE conda_create(i, a,
             Div(IF a.base_path # NoPath THEN a.base_path
                 ELSE get_default_env_directory(m),
                 hash_objects(a.requirements \o <<"|", a.python_version, "|">>
                              \o a.conda_requirements \o <<"|", a.conda_executable>>)),
             tool)

\* create_conda_environment: environment_path is bound only when no name is
\* given, and is read before the create command runs.
create_conda_environment(m, i, a, tool) ==
    IF ~shutil_which(m, a.conda_executable) THEN NotCreated("RuntimeError", NoPath, <<>>)
    ELSE IF a.name # "" /\ a.base_path # NoPath
    THEN NotCreated("ValueError", NoPath, <<>>)
    ELSE IF a.name # "" THEN NotCreated("UnboundLocalError", NoPath, <<>>)
    ELSE conda_create(i, a,
             Div(IF a.base_path # NoPath THEN a.base_path
                 ELSE get_default_env_directory(m),
                 hash_objects(a.requirements \o <<"|", a.python_version, "|">>
                              \o a.conda_requirements \o <<"|", a.conda_executable>>)),
             tool)

\* A creation call and what its commands did, with what the call before it
\* targeted when that call was the same function with the same arguments.
CreationCall(op, a, tool, res) ==
    LET again == /\ last.op = op
                 /\ last.spec = a
                 /\ last.res.target # NoPath
    IN  [op |-> op, spec |-> a, tool |-> tool, res |-> res, again |-> again,
         before |-> IF again THEN last.res.target ELSE NoPath]

CreateVenvEnvironment ==
    /\ \E a \in VenvSpecs : \E tool \in VenvTools :
          last' = CreationCall("create_venv_environment", a, tool,
                               create_venv_environment(machine, a, tool))
    /\ UNCHANGED <<impl, env, doc, args, procs, threads, function, calldoc, files, called, machine>>

CreateCondaEnvironment ==
    /\ \E a \in CondaSpecs : \E tool \in CondaTools :
          last' = CreationCall("create_conda_environment", a, tool,
                               create_conda_environment(machine, impl, a, tool))
    /\ UNCHANGED <<impl, env, doc, args, procs, threads, function, calldoc, files, called, machine>>

\* os.chdir between two calls.
Chdir ==
    /\ \E d \in {"/proj", "/home"} :
          /\ d # machine.cwd
          /\ machine' = [machine EXCEPT !.cwd = d]
    /\ UNCHANGED <<impl, env, doc, args, procs, threads, function, calldoc, files, called, last>>

InitEnvironments ==
    /\ impl \in Impls
    /\ env = [kind |-> "bare", hasName |-> FALSE, hasPath |-> FALSE]
    /\ doc = [decodes |-> TRUE, raises |-> FALSE, obj |-> None]
    /\ args = Obj("tuple", <<"(1, 2)">>, TRUE, TRUE, 20)
    /\ procs = <<>>
    /\ threads = NoThreads
    /\ function = NoFunction
    /\ calldoc = NoDocument
    /\ files = {}
    /\ called = NotCalled
    /\ machine \in Machines
    /\ last = NoCall

NextEnvironments ==
    \/ DetectEnvironment
    \/ DetectCondaEnvironment
    \/ CallIsActive
    \/ CallIsAvailable
    \/ CallManagerAvailable
    \/ CallPythonCommand
    \/ CallPythonVariables
    \/ CreateVenvEnvironment
    \/ CreateCondaEnvironment
    \/ Chdir

SpecEnvironments == InitEnvironments /\ [][NextEnvironments]_vars

(***************************************************************************)
(* Claims about detection, the descriptors' methods and creation.          *)
(***************************************************************************)
\* The interpreter of the host is the one of its active conda environment.
InActiveConda == machine.conda = "ok" /\ machine.exeInPrefix

\* C15: detect_environment returns the descriptor of the first of the conda,
\* virtualenv and bare detectors that yields one: the conda descriptor when
\* the running interpreter is the active conda environment's, the bare one
\* otherwise, and it always returns a descriptor.
C15_DetectionOrder ==
    last.op = "detect_environment" =>
        /\ last.res.ok
        /\ last.res.val # NoDescriptor
        /\ last.res.val.kind = IF InActiveConda THEN "conda" ELSE "bare"

\* The four cases in which no conda environment is expected to be found.
ExpectedAbsence ==
    \/ machine.conda \in {"absent", "fails", "error"}
    \/ machine.conda = "ok" /\ ~machine.exeInPrefix

\* C16: when the conda tool is not installed, exits non-zero, reports an
\* error, or exports an environment the running interpreter does not belong
\* to, the conda detector returns null and detect_environment returns the
\* descriptor of a later detector.
C16_CondaDetectorReturnsNull ==
    ExpectedAbsence =>
        /\ last.op = "detect_conda_environment" =>
              last.res.ok /\ last.res.val = NoDescriptor
        /\ last.op = "detect_environment" =>
              last.res.ok /\ last.res.val.kind = "bare"

\* The last call was a method of a conda descriptor with no name and no path.
OnNeitherSet(op) ==
    /\ last.op = op
    /\ last.env.kind = "conda"
    /\ ~last.env.hasName
    /\ ~last.env.hasPath

\* C17 as stated: a conda descriptor with neither name nor path raises the
\* error about name and path on is_active, is_available, manager_available
\* and python_command, whatever the state of the conda tool.
C17_NeitherSetAlwaysRaises ==
    \A op \in {"is_active", "is_available", "manager_available", "python_command"} :
        OnNeitherSet(op) => ~last.res.ok /\ last.res.err = NeitherSet

\* C17: on a conda descriptor with neither name nor path, is_active and
\* python_command raise the error about name and path; is_available raises
\* it when the conda tool lists the environments, and raises the tool's
\* failure when the tool is missing or exits non-zero; manager_available
\* raises nothing and returns whether the conda tool is found.
C17_NeitherSetRaisesWhereLocated ==
    /\ \A op \in {"is_active", "python_command"} :
          OnNeitherSet(op) => ~last.res.ok /\ last.res.err = NeitherSet
    /\ OnNeitherSet("is_available") =>
          /\ ~last.res.ok
          /\ (last.res.err = NeitherSet) <=> (last.facts.condaOnPath /\ last.facts.condaListOk)
          /\ ~last.facts.condaOnPath => last.res.err.cls = "FileNotFoundError"
          /\ (last.facts.condaOnPath /\ ~last.facts.condaListOk) =>
                last.res.err.cls = "RuntimeError"
    /\ OnNeitherSet("manager_available") =>
          last.res.ok /\ last.res.val = last.facts.condaOnPath

C17_Witness ==
    /\ OnNeitherSet("is_available")
    /\ last.facts.condaOnPath
    /\ last.facts.condaListOk
    /\ last.res.err = NeitherSet

\* C18: every conda descriptor that create_conda_environment or
\* detect_conda_environment returns has exactly one of name and path.
C18_ExactlyOneOfNameAndPath ==
    (/\ last.op \in {"create_conda_environment", "detect_conda_environment"}
     /\ last.res.ok
     /\ last.res.val.kind = "conda")
    => (last.res.val.hasName # last.res.val.hasPath)

C18_Witness ==
    /\ last.op = "create_conda_environment"
    /\ last.spec.base_path # NoPath
    /\ last.res.ok
    /\ last.res.val.hasPath
    /\ ~last.res.val.hasName

\* C19: python_variables of a venv descriptor returns the environment of the
\* process with PATH = bin directory, separator, inherited PATH, without
\* PYTHONHOME, with VIRTUAL_ENV = the resolved path and the rest unchanged;
\* bare and conda descriptors return it unchanged; the environment of the
\* process itself is the same before and after.
C19_VenvVariables ==
    last.op = "python_variables" =>
        /\ last.res.ok
        /\ machine.environ = last.before
        /\ last.env.kind # "venv" => last.res.ret = last.before
        /\ last.env.kind = "venv" =>
              /\ last.res.ret["PATH"] = <<"<path>/bin">> \o last.before["PATH"]
              /\ last.res.ret["PYTHONHOME"] = Unset
              /\ last.res.ret["VIRTUAL_ENV"] = <<"<path>">>
              /\ last.res.ret["LANG"] = last.before["LANG"]

\* The last call derived the location itself: no path and no name given.
DerivedLocation ==
    /\ last.op \in {"create_venv_environment", "create_conda_environment"}
    /\ last.res.target # NoPath
    /\ last.op = "create_venv_environment" => last.spec.path = NoPath
    /\ last.op = "create_conda_environment" =>
          last.spec.name = "" /\ last.spec.base_path = NoPath

Offending(i) ==
    IF procs[i].exception # None THEN procs[i].exception ELSE procs[i].retval.obj

\* C22: whenever the returned value or the captured exception cannot be
\* encoded, the worker answers EXCEPTION with a PickleError whose message
\* names the type of the offending object, gives its representation and the
\* original encoding failure, also when the object evaluates as false.
C22_PickleErrorDescribesObject ==
    \A i \in DOMAIN procs :
        (Exited(i) /\ ~Offending(i).picklable) =>
            /\ procs[i].out[1] = Word("EXCEPTION")
            /\ PayloadOf(procs[i].out).obj.cls = "PickleError"
            /\ PayloadOf(procs[i].out).obj.msg =
                  <<"Pickle of type", Offending(i).cls, "failed with exception:">>
                      \o PicklingFailure(Offending(i)).msg
                      \o <<"Object:">> \o Repr(Offending(i))

\* The last call was a method of a conda descriptor with a name and a path.
OnBothSet(op) ==
    /\ last.op = op
    /\ last.env.kind = "conda"
    /\ last.env.hasName
    /\ last.env.hasPath

\* C27: on a conda descriptor with both name and path, is_active,
\* is_available and python_command all locate the environment by its name.
C27_NameTakesPrecedence ==
    /\ OnBothSet("is_active") => last.res = Ret(last.facts.exeEndsWithName)
    /\ (OnBothSet("is_available") /\ last.res.ok) =>
          last.res = Ret(last.facts.nameListed)
    /\ OnBothSet("python_command") =>
          /\ last.res.ok
          /\ "--name" \in Range(last.res.val)
          /\ "--prefix" \notin Range(last.res.val)

\* C28: in run (packaging.py) a worker whose environment is_active() says is
\* not active raises the worker-guard error with no other predicate called;
\* a worker never ends in NEEDS-CREATE or UNSUPPORTED.
C28_WorkerGuardBeforeAvailability ==
    \A i \in DOMAIN procs :
        (GuardedWorker(procs[i]) /\ Dispatched(procs[i])) =>
            /\ procs[i].outcome \notin {"NEEDS_CREATE", "UNSUPPORTED", "REMOTE"}
            /\ Len(procs[i].evald) = 1
            /\ procs[i].evald[1].pred = "is_active"
            /\ (procs[i].evald[1].ok /\ ~procs[i].evald[1].val) =>
                  /\ procs[i].outcome = "WORKER_GUARD"
                  /\ procs[i].exception = WorkerGuardError

\* A worker of packaging.py raised the guard error on a machine where the
\* environment is neither available nor creatable.
C28_Witness ==
    \E i \in DOMAIN procs :
        /\ GuardedWorker(procs[i])
        /\ procs[i].outcome = "WORKER_GUARD"
        /\ env.kind = "bare"
        /\ ~procs[i].facts.whichPython
        /\ procs[i].exception = WorkerGuardError

\* C29: a bare descriptor that is active is available and never has a
\* manager, so its dispatch never ends in NEEDS-CREATE; a venv descriptor
\* always has a manager, so its dispatch never ends in UNSUPPORTED; a conda
\* descriptor reaches all four outcomes, UNSUPPORTED being the outcome of a
\* dispatch outside a worker that finds the environment not active and the
\* conda tool missing.
C29_OutcomesByVariant ==
    \A i \in DOMAIN procs :
        Dispatched(procs[i]) =>
            /\ env.kind = "bare" =>
                  /\ procs[i].outcome # "NEEDS_CREATE"
                  /\ \A k \in DOMAIN procs[i].evald :
                        procs[i].evald[k].pred = "manager_available" =>
                            ~procs[i].evald[k].val
                  /\ is_active(env, procs[i].facts).val =>
                        is_available(env, procs[i].facts).val
            /\ env.kind = "venv" =>
                  /\ procs[i].outcome # "UNSUPPORTED"
                  /\ \A k \in DOMAIN procs[i].evald :
                        procs[i].evald[k].pred = "manager_available" =>
                            procs[i].evald[k].val
            /\ (/\ env.kind = "conda"
                /\ ~GuardedWorker(procs[i])
                /\ procs[i].evald[1].ok
                /\ ~procs[i].evald[1].val
                /\ ~procs[i].facts.condaOnPath) =>
                  procs[i].outcome = "UNSUPPORTED"

\* The callable raised SystemExit or KeyboardInterrupt in the worker c.
ExitRaisedIn(c) == CallableRaisedIn(c) /\ doc.obj.cls \in NotExceptions

\* C30: when decoding or the call raises SystemExit or KeyboardInterrupt in
\* the worker, the worker still ends with one EXCEPTION response carrying
\* that exception, and the parent raises that same exception.
C30_ExitIsCapturedAndReraised ==
    \A i \in DOMAIN procs :
        /\ (IsWorker(procs[i]) /\ ExitRaisedIn(procs[i])) =>
              /\ procs[i].pc \in {"respond", "exited"}
              /\ procs[i].exception = doc.obj
              /\ procs[i].pc = "exited" =>
                    /\ OneResponse(procs[i].out)
                    /\ procs[i].out[1] = Word("EXCEPTION")
                    /\ PayloadOf(procs[i].out).obj = doc.obj
        /\ (i < Len(procs) /\ ExitRaisedIn(procs[i + 1]) /\ Finished(procs[i])) =>
              procs[i].exception = doc.obj

\* The parent has raised the SystemExit the callable raised in its worker.
C30_Witness ==
    /\ Len(procs) = 2
    /\ ExitRaisedIn(procs[2])
    /\ procs[1].pc = "done"
    /\ procs[1].exception = Obj("SystemExit", <<"1">>, TRUE, TRUE, 65)
    /\ procs[2].out[1] = Word("EXCEPTION")

\* The last call was a creation whose required executable is not installed.
ExecutableMissing ==
    \/ /\ last.op = "create_venv_environment"
       /\ ~shutil_which(machine, last.spec.python_executable)
    \/ /\ last.op = "create_conda_environment"
       /\ ~shutil_which(machine, last.spec.conda_executable)

\* C21: a creation returns a descriptor only if every external step
\* succeeded (for conda, with a create result that is well formed and
\* reports success); with the executable missing it raises before any
\* command is run; when a step fails it raises and the steps after it are
\* not run.
C21_CreationFailsLoudly ==
    last.op \in {"create_venv_environment", "create_conda_environment"} =>
        /\ last.res.ok => last.tool = "ok"
        /\ ExecutableMissing => ~last.res.ok /\ last.res.ran = <<>>
        /\ (last.tool # "ok" /\ last.res.ran # <<>>) =>
              /\ ~last.res.ok
              /\ last.tool = "venv-exit-1" => last.res.ran = <<"venv">>
              /\ last.tool \in {"create-exit-1", "bad-json", "no-success", "other-prefix"}
                    => last.res.ran = <<"create">>

\* The dotted names a comma-separated text lists, each as its characters.
RECURSIVE DottedNames(_)
DottedNames(text) ==
    IF "," \notin Range(text) THEN <<text>>
    ELSE LET k == CHOOSE k \in DOMAIN text :
                     text[k] = "," /\ \A j \in 1..(k - 1) : text[j] # ","
         IN  <<SubSeq(text, 1, k - 1)>> \o DottedNames(SubSeq(text, k + 1, Len(text)))

\* C23: with PREFECT_REGISTER_PATHS unset the import of the worker module
\* imports nothing; with it set to a list of dotted names, each listed name
\* is imported once, as a whole name, in order, and the module is imported
\* so that the request can be handled afterwards.
C23_RegisterPathsImported ==
    last.op = "import_worker" =>
        /\ last.res.ok
        /\ last.res.imported =
              IF last.value \in {Unset, <<>>} THEN <<>> ELSE DottedNames(last.value)

\* The process i started a worker and waits for it, or has waited for it.
Spawned(i) == i < Len(procs) /\ "spawn" \in Range(procs[i].effects)

\* C26: a caller that started a worker completes its dispatch (returns or
\* raises) only once the worker has exited, and once the worker has exited
\* it eventually does; while the worker runs the caller waits, however long.
C26_CallerWaitsForChildExit ==
    /\ [](\A i \in DOMAIN procs :
            (Spawned(i) /\ procs[i].pc # "waiting") => procs[i + 1].pc = "exited")
    /\ \A i \in 1..(MaxProcs - 1) :
          (IF i \in DOMAIN procs
           THEN Spawned(i) /\ procs[i + 1].pc = "exited"
           ELSE FALSE)
              ~> (IF i \in DOMAIN procs THEN Finished(procs[i]) ELSE FALSE)

\* The caller has returned from the dispatch after its worker exited.
C26_Witness ==
    /\ Len(procs) = 2
    /\ Spawned(1)
    /\ procs[2].pc = "exited"
    /\ procs[1].pc = "done"
    /\ procs[1].exception = None

(***************************************************************************)
(* Concurrent invocations: the dispatcher called from several threads of   *)
(* one process.  A call keeps its state in locals (call, request, command, *)
(* the response) and starts its own child with subprocess.check_output,    *)
(* which opens a pipe for the standard output of that child.  The request  *)
(* is handed to the child once, as its command-line argument.              *)
(***************************************************************************)
\* Number of threads that call the dispatcher at the same time.
MaxThreads == 2

ThreadIds == 1..MaxThreads

\* What the threads' callables do: return a value, return one that cannot be
\* pickled, raise.
ThreadDocs == { d \in Docs : d.obj.cls \in {"NoneType", "int", "lock", "ValueError"} }

\* The child of an invocation, before it is started.
NoChild == [pc |-> "none", retval |-> Plain(None), exception |-> None]

\* An invocation about to call the dispatcher with the document d.
NewThread(d) ==
    [ pc |-> "dispatch", doc |-> d,
      sent |-> 0,          \* requests handed to a child
      reads |-> 0,         \* responses read
      child |-> NoChild,
      pipe |-> <<>>,       \* the pipe check_output opened in this call
      retval |-> Plain(None), exception |-> None ]

\* One pipe that every child writes to and every caller reads.
StreamOf_shared(t) == 1

\* The stream the child of the invocation t writes its response to and t
\* reads: the pipe opened by t's own check_output call.
StreamOf(t) == t

\* run_in_new_worker: encode the call, start the worker with the request as
\* its argument, and wait in check_output.
ThreadSpawn(t) ==
    /\ t \in DOMAIN threads
    /\ threads[t].pc = "dispatch"
    /\ args.picklable
    /\ \E f \in FactsFor(env) : Dispatch(impl, FALSE, env, f).outcome = "REMOTE"
    /\ threads' = [threads EXCEPT ![t].pc = "waiting",
                                  ![t].sent = @ + 1,
                                  ![t].child = [NoChild EXCEPT !.pc = "request"]]
    /\ UNCHANGED <<impl, env, doc, args, procs, benchVars>>

\* The child of t decodes the request it was given (t's document) and calls
\* the function.
ThreadWorkerCall(t) ==
    /\ t \in DOMAIN threads
    /\ threads[t].child.pc = "request"
    /\ LET d == threads[t].doc
       IN  threads' = [threads EXCEPT ![t].child =
              IF ~d.decodes \/ d.raises
              THEN [@ EXCEPT !.exception = d.obj, !.pc = "respond"]
              ELSE [@ EXCEPT !.retval = Plain(d.obj), !.pc = "respond"]]
    /\ UNCHANGED <<impl, env, doc, args, procs, benchVars>>

\* The child of t encodes its result, writes status, newline and payload to
\* its standard output, and ends.
ThreadWorkerRespond(t) ==
    /\ t \in DOMAIN threads
    /\ threads[t].child.pc = "respond"
    /\ \E r \in {EncodeResult(threads[t].child.exception,
                              threads[t].child.retval, MaxThreads + t)} :
          threads' = [threads EXCEPT
             ![StreamOf(t)].pipe =
                 IF r.result.ok THEN @ \o WorkerOutput(r.status, r.result.blob) ELSE @,
             ![t].child.pc = "exited"]
    /\ UNCHANGED <<impl, env, doc, args, procs, benchVars>>

\* check_output returns what the pipe holds once the child has ended;
\* handle_worker_response returns the value or raises the exception.
ThreadHandleResponse(t) ==
    /\ t \in DOMAIN threads
    /\ threads[t].pc = "waiting"
    /\ threads[t].child.pc = "exited"
    /\ \E r \in {handle_worker_response(threads[StreamOf(t)].pipe)} :
          threads' = [threads EXCEPT
             ![t].reads = @ + 1,
             ![t].retval = IF r.act = "return" THEN r.val ELSE Plain(None),
             ![t].exception = IF r.act = "return" THEN None ELSE r.err,
             ![t].pc = "done"]
    /\ UNCHANGED <<impl, env, doc, args, procs, benchVars>>

InitThreads ==
    /\ impl \in Impls
    /\ env = [kind |-> "venv", hasName |-> FALSE, hasPath |-> TRUE]
    /\ doc = [decodes |-> TRUE, raises |-> FALSE, obj |-> None]
    /\ args = Obj("tuple", <<"(1, 2)">>, TRUE, TRUE, 20)
    /\ procs = <<>>
    /\ threads \in [ThreadIds -> {NewThread(d) : d \in ThreadDocs}]
    /\ function = NoFunction
    /\ calldoc = NoDocument
    /\ files = {}
    /\ called = NotCalled
    /\ IdleHost

NextThreads ==
    \/ \E t \in ThreadIds : ThreadSpawn(t)
    \/ \E t \in ThreadIds : ThreadWorkerCall(t)
    \/ \E t \in ThreadIds : ThreadWorkerRespond(t)
    \/ \E t \in ThreadIds : ThreadHandleResponse(t)

SpecThreads == InitThreads /\ [][NextThreads]_vars

\* An invocation, not a creation request.
IsInvocation(t) == "doc" \in DOMAIN threads[t]

\* What the caller t gets from the response its own child wrote, had it been
\* the only invocation.
OwnResult(t) ==
    LET c == threads[t].child
        e == EncodeResult(c.exception, c.retval, MaxThreads + t)
    IN  handle_worker_response(
            IF e.result.ok THEN WorkerOutput(e.status, e.result.blob) ELSE <<>>)

\* C24: invocations running in separate threads do not interfere: each hands
\* one request to a child of its own and reads one response, and the value or
\* exception a caller ends with is the one its own child produced, whatever
\* the other invocations do in between.
C24_ConcurrentDispatchesDoNotInterfere ==
    \A t \in DOMAIN threads :
       IsInvocation(t) =>
          /\ threads[t].sent <= 1
          /\ threads[t].reads <= 1
          /\ threads[t].pc = "done" =>
                /\ threads[t].sent = 1
                /\ threads[t].reads = 1
                /\ threads[t].child.pc = "exited"
                /\ threads[t].retval = (IF OwnResult(t).act = "return"
                                        THEN OwnResult(t).val ELSE Plain(None))
                /\ threads[t].exception = (IF OwnResult(t).act = "return"
                                           THEN None ELSE OwnResult(t).err)
                /\ (threads[t].doc.obj.picklable /\ ~threads[t].doc.raises)
                      => threads[t].retval = Plain(threads[t].doc.obj)
                /\ (threads[t].doc.obj.picklable /\ threads[t].doc.raises)
                      => threads[t].exception = threads[t].doc.obj

\* Two invocations with different callables were in flight together: one has
\* its value while the other's child has answered and has not been read.
C24_Witness ==
    /\ DOMAIN threads = ThreadIds
    /\ IsInvocation(1)
    /\ threads[1].pc = "done"
    /\ threads[1].retval = Plain(Obj("int", <<"3">>, TRUE, TRUE, 5))
    /\ threads[2].pc = "waiting"
    /\ threads[2].child.pc = "exited"
    /\ threads[2].doc.raises

(***************************************************************************)
(* Concurrent creation requests: create_venv_environment and               *)
(* create_conda_environment called at the same time on one host, from one  *)
(* working directory.  A call is followed command by command: "venv" or    *)
(* "create", then "pip", work on the environment path.                     *)
(***************************************************************************)
\* The requests: a venv with the default path, with a path given, with an
\* interpreter that is not installed, and a conda environment by prefix.
CreationSpecs ==
    { a \in VenvSpecs : a.requirements = <<"numpy">>
                        /\ (a.python_executable = "python3" \/ a.path = NoPath) }
    \cup { a \in CondaSpecs : a.python_version = "3.9" /\ a.name = ""
                              /\ a.base_path = NoPath }

IsVenvSpec(a) == "python_executable" \in DOMAIN a

\* What the commands of a request do: all succeed, or one of them fails.
CreationTools(a) == IF IsVenvSpec(a) THEN {"ok", "pip-exit-1"} ELSE {"ok", "create-exit-1"}

\* The hosts of the requests: the conda tool installed or not.
CreationMachines ==
    { m \in Machines : /\ m.cwd = "/proj"
                       /\ m.conda \in {"absent", "error"}
                       /\ m.environ["PATH"] # Unset
                       /\ m.environ["PYTHONHOME"] = Unset }

\* A request about to call its creation function with the arguments a; k is
\* the number of external commands it has started.
NewRequest(a) ==
    [pc |-> "start", spec |-> a, res |-> NotCreated("", NoPath, <<>>), k |-> 0]

\* The creation function of the arguments a.
create_environment(m, i, a, tool) ==
    IF IsVenvSpec(a) THEN create_venv_environment(m, a, tool)
    ELSE create_conda_environment(m, i, a, tool)

\* A lock on the environment path: a command on a path waits while another
\* request runs a command on that path.
may_run_command_exclusive(t) ==
    \A u \in DOMAIN threads \ {t} :
       ~(threads[u].pc = "running" /\ threads[u].res.target = threads[t].res.target)

\* Whether the request t may start its next command: subprocess.check_call
\* and check_output are called without a lock and without a look at the path.
may_run_command(t) == TRUE

\* The call begins: the executable is looked up and the path is derived; a
\* call that raises here has run no command.
CreationBegins(t) ==
    /\ t \in DOMAIN threads
    /\ threads[t].pc = "start"
    /\ \E tool \in CreationTools(threads[t].spec) :
          LET res == create_environment(machine, impl, threads[t].spec, tool)
          IN  threads' = [threads EXCEPT ![t].res = res,
                                         ![t].pc = IF res.ran = <<>> THEN "failed"
                                                   ELSE "ready"]
    /\ UNCHANGED <<impl, env, doc, args, procs, benchVars>>

\* The next external command of the call is started (the one before it, if
\* any, has ended with status 0).
CreationRunsCommand(t) ==
    /\ t \in DOMAIN threads
    /\ threads[t].pc \in {"ready", "running"}
    /\ threads[t].k < Len(threads[t].res.ran)
    /\ may_run_command(t)
    /\ threads' = [threads EXCEPT ![t].k = @ + 1, ![t].pc = "running"]
    /\ UNCHANGED <<impl, env, doc, args, procs, benchVars>>

\* The last command of the call has ended: the descriptor is returned or
\* the failure of the command is raised.
CreationEnds(t) ==
    /\ t \in DOMAIN threads
    /\ threads[t].pc = "running"
    /\ threads[t].k = Len(threads[t].res.ran)
    /\ threads' = [threads EXCEPT ![t].pc = IF threads[t].res.ok THEN "done"
                                            ELSE "failed"]
    /\ UNCHANGED <<impl, env, doc, args, procs, benchVars>>

InitCreation ==
    /\ impl \in Impls
    /\ env = [kind |-> "bare", hasName |-> FALSE, hasPath |-> FALSE]
    /\ doc = [decodes |-> TRUE, raises |-> FALSE, obj |-> None]
    /\ args = Obj("tuple", <<"(1, 2)">>, TRUE, TRUE, 20)
    /\ procs = <<>>
    /\ threads \in [ThreadIds -> {NewRequest(a) : a \in CreationSpecs}]
    /\ function = NoFunction
    /\ calldoc = NoDocument
    /\ files = {}
    /\ called = NotCalled
    /\ machine \in CreationMachines
    /\ last = NoCall

NextCreation ==
    \/ \E t \in ThreadIds : CreationBegins(t)
    \/ \E t \in ThreadIds : CreationRunsCommand(t)
    \/ \E t \in ThreadIds : CreationEnds(t)

SpecCreation == InitCreation /\ [][NextCreation]_vars

\* A creation request, not an invocation.
IsRequest(t) == "spec" \in DOMAIN threads[t]

\* The request t leaves the path to the function.
NoExplicitPath(t) ==
    IF IsVenvSpec(threads[t].spec) THEN threads[t].spec.path = NoPath
    ELSE threads[t].spec.base_path = NoPath

\* The request t has derived its path and runs, or is about to run, commands.
Creating(t) == IsRequest(t) /\ threads[t].pc \in {"ready", "running"}

\* A command of the request t that works on the environment path is running.
Provisioning(t) ==
    /\ IsRequest(t)
    /\ threads[t].pc = "running"
    /\ threads[t].res.ran[threads[t].k] \in {"venv", "create", "pip"}

\* C25: creation requests with the same arguments and no path given derive
\* the same path, and a request is never held back by another one: whatever
\* the others are doing, its next command can start.
C25_SamePathNoExclusion ==
    /\ \A t, u \in DOMAIN threads :
          (Creating(t) /\ Creating(u) /\ threads[t].spec = threads[u].spec
              /\ NoExplicitPath(t))
             => /\ threads[t].res.target # NoPath
                /\ threads[t].res.target = threads[u].res.target
    /\ \A t \in DOMAIN threads :
          (Creating(t) /\ threads[t].k < Len(threads[t].res.ran))
             => ENABLED CreationRunsCommand(t)

\* Two requests with the same arguments and no path given run their first
\* command on the same path at the same time.
C25_Witness ==
    /\ DOMAIN threads = ThreadIds
    /\ Provisioning(1)
    /\ Provisioning(2)
    /\ threads[1].spec = threads[2].spec
    /\ NoExplicitPath(1)
    /\ threads[1].k = 1
    /\ threads[2].k = 1
    /\ threads[1].res.target = threads[2].res.target

====
